---- MODULE Spec2Model ----
(***************************************************************************)
(* sshfsman: mount-state detection and the safety protocol around it.     *)
(*                                                                         *)
(* Strings are sequences of one-character strings, a path is the sequence  *)
(* of its components ("/" is the empty sequence), so that sanitisation,    *)
(* remote parsing and path resolution are computed, not assumed.           *)
(***************************************************************************)
EXTENDS Integers, Sequences, FiniteSets, TLC

VARIABLES
    dirs,        \* directories that exist (canonical paths)
    links,       \* symbolic links that exist (canonical paths)
    mounts,      \* mount points of type fuse.sshfs in the kernel mount table
    stale,       \* mount points whose sshfs process is gone: stat fails on them
    findmnt_ok,  \* the findmnt executable is installed
    exists_raises, \* Path.exists() re-raises an OSError other than ENOENT (or returns False)
    cfg,         \* the configuration file, as _read_config returns it
    pc,          \* position of the running command
    cmd,         \* the command of the current invocation
    args,        \* its parsed arguments
    target,      \* mountpoint (cmd_mount) / target (_unmount_one, unmount-all)
    remote_final,\* cmd_mount: the remote handed to sshfs
    mount_name,  \* cmd_mount: the sanitised directory name
    queue,       \* cmd_unmount_all: targets still to process
    cur,         \* _safe_prune_empty_dirs: the directory under inspection
    exit,        \* exit status of main(): -1 while running
    log,         \* what this invocation did, in order
    pre,         \* the file system, mount table and config when it started
    file,        \* the bytes of the configuration file under concurrent editing
    editors,     \* the invocations that edit the configuration file concurrently
    procs        \* the invocations that mount and unmount one path concurrently

vars == <<dirs, links, mounts, stale, findmnt_ok, exists_raises, cfg, pc, cmd, args, target,
          remote_final, mount_name, queue, cur, exit, log, pre, file, editors, procs>>

(***************************************************************************)
(* Bounds                                                                  *)
(***************************************************************************)
\* depth of the chain of nested directories a/a/... below the mount root
MaxNest == 2

\* number of mounts that lose their sshfs process
MaxStale == 1

\* length of the names handed to _sanitize_mount_dir
MaxLen == 4

(***************************************************************************)
(* Characters and strings                                                  *)
(***************************************************************************)
Letters == {"a", "b", "c", "d", "e", "f", "g", "h", "i", "j", "k", "l", "m",
            "n", "o", "p", "q", "r", "s", "t", "u", "v", "w", "x", "y", "z"}

Digits == {"0", "1", "2", "3", "4", "5", "6", "7", "8", "9"}

Chars == Letters \cup Digits \cup {".", "_", "-", "/", ":", "@", " "}

\* the class [A-Za-z0-9._-] of _sanitize_mount_dir
AllowedChars == Letters \cup Digits \cup {".", "_", "-"}

RECURSIVE LStrip(_, _)
LStrip(s, cs) ==
    IF s # <<>> /\ Head(s) \in cs THEN LStrip(Tail(s), cs) ELSE s

RECURSIVE RStrip(_, _)
RStrip(s, cs) ==
    IF s # <<>> /\ s[Len(s)] \in cs THEN RStrip(SubSeq(s, 1, Len(s) - 1), cs) ELSE s

\* str.strip(chars)
Strip(s, cs) == RStrip(LStrip(s, cs), cs)

\* re.sub("[cls]+", "_", s): every maximal run of characters of cls becomes one "_"
RECURSIVE ReSubRuns(_, _)
ReSubRuns(s, cls) ==
    IF s = <<>> THEN <<>>
    ELSE IF Head(s) \in cls
         THEN <<"_">> \o ReSubRuns(LStrip(Tail(s), cls), cls)
         ELSE <<Head(s)>> \o ReSubRuns(Tail(s), cls)

MountLiteral == <<"m", "o", "u", "n", "t">>

\* trimming before the substitutions instead of after them
_sanitize_mount_dir_TrimFirst(name) ==
    LET n0 == Strip(name, {" "})
        n1 == Strip(n0, {"_", ".", "-"})
        n2 == ReSubRuns(ReSubRuns(n1, Chars \ AllowedChars), {"_"})
    IN  IF n0 = <<>> THEN MountLiteral
        ELSE IF n2 = <<>> THEN MountLiteral ELSE n2

_sanitize_mount_dir(name) ==
    LET n0 == Strip(name, {" "})
        n1 == ReSubRuns(n0, Chars \ AllowedChars)
        n2 == Strip(ReSubRuns(n1, {"_"}), {"_", ".", "-"})
    IN  IF n0 = <<>> THEN MountLiteral
        ELSE IF n2 = <<>> THEN MountLiteral ELSE n2

\* index of the first occurrence of character c in s, 0 when absent
RECURSIVE IndexOf(_, _, _)
IndexOf(s, c, i) ==
    IF i > Len(s) THEN 0
    ELSE IF s[i] = c THEN i ELSE IndexOf(s, c, i + 1)

\* index of the last occurrence of character c in s, 0 when absent
RECURSIVE LastIndexOf(_, _, _)
LastIndexOf(s, c, i) ==
    IF i < 1 THEN 0
    ELSE IF s[i] = c THEN i ELSE LastIndexOf(s, c, i - 1)

\* _parse_remote: 'user@host:/path' -> (ok, 'user@host', '/path')
_parse_remote(remote) ==
    LET k     == IndexOf(remote, ":", 1)
        left  == IF k = 0 THEN <<>> ELSE SubSeq(remote, 1, k - 1)
        right == IF k = 0 THEN <<>> ELSE SubSeq(remote, k + 1, Len(remote))
    IN  IF k = 0 \/ left = <<>> \/ right = <<>>
        THEN [ok |-> FALSE, left |-> <<>>, right |-> <<>>]
        ELSE [ok |-> TRUE, left |-> left,
              right |-> IF Head(right) = "/" THEN right ELSE <<"/">> \o right]

\* Path(path).name for a "/"-separated string: its last component
PathName(path) ==
    LET p == RStrip(path, {"/"})
        k == LastIndexOf(p, "/", Len(p))
    IN  SubSeq(p, k + 1, Len(p))

\* userhost.split("@", 1)[-1]
HostOf(userhost) ==
    LET k == IndexOf(userhost, "@", 1)
    IN  IF k = 0 THEN userhost ELSE SubSeq(userhost, k + 1, Len(userhost))

\* the leaf of the path alone, without `or host`
_infer_mount_dir_from_remote_LeafOnly(remote) ==
    LET pr   == _parse_remote(remote)
        leaf == PathName(pr.right)
    IN  [ok |-> pr.ok, name |-> IF pr.ok THEN _sanitize_mount_dir(leaf) ELSE <<>>]

\* _infer_mount_dir_from_remote: (ok, name); not ok when _parse_remote raises
_infer_mount_dir_from_remote(remote) ==
    LET pr   == _parse_remote(remote)
        leaf == PathName(pr.right)
        base == IF leaf # <<>> THEN leaf ELSE HostOf(pr.left)
    IN  [ok |-> pr.ok, name |-> IF pr.ok THEN _sanitize_mount_dir(base) ELSE <<>>]

(***************************************************************************)
(* AddressResolver                                                         *)
(***************************************************************************)
DigitChars == <<"0", "1", "2", "3", "4", "5", "6", "7", "8", "9">>

DigitVal(c) == (CHOOSE i \in 1..Len(DigitChars) : DigitChars[i] = c) - 1

\* str.isdigit() on the ASCII strings of the model
IsDigitStr(s) == s # <<>> /\ \A i \in 1..Len(s) : s[i] \in Digits

\* int(s) for a string of digits
RECURSIVE ToInt(_)
ToInt(s) ==
    IF s = <<>> THEN 0
    ELSE ToInt(SubSeq(s, 1, Len(s) - 1)) * Len(DigitChars) + DigitVal(s[Len(s)])

\* str(v) for v >= 0
RECURSIVE ToStr(_)
ToStr(v) ==
    IF v < Len(DigitChars) THEN <<DigitChars[v + 1]>>
    ELSE ToStr(v \div Len(DigitChars)) \o <<DigitChars[(v % Len(DigitChars)) + 1]>>

\* s.split(sep)
RECURSIVE Split(_, _)
Split(s, sep) ==
    LET k == IndexOf(s, sep, 1)
    IN  IF k = 0 THEN <<s>>
        ELSE <<SubSeq(s, 1, k - 1)>> \o Split(SubSeq(s, k + 1, Len(s)), sep)

\* ".".join(parts)
RECURSIVE JoinDot(_)
JoinDot(parts) ==
    IF parts = <<>> THEN <<>>
    ELSE IF Len(parts) = 1 THEN parts[1]
    ELSE parts[1] \o <<".">> \o JoinDot(Tail(parts))

\* _IPV4_RE matched against s.strip(), then every octet within 0..255
_is_ipv4(s) ==
    LET parts == Split(Strip(s, {" "}), ".")
    IN  /\ Len(parts) = 4
        /\ \A i \in 1..4 : /\ IsDigitStr(parts[i])
                           /\ Len(parts[i]) <= 3
                           /\ ToInt(parts[i]) <= 255

\* the last octet replaced by any number, in range or not
_replace_last_octet_AnyNumber(ip, last) ==
    IF ~_is_ipv4(ip) THEN ip
    ELSE IF ~IsDigitStr(last) THEN ip
    ELSE LET parts == Split(ip, ".")
         IN  JoinDot(<<parts[1], parts[2], parts[3], ToStr(ToInt(last))>>)

_replace_last_octet(ip, last) ==
    IF ~_is_ipv4(ip) THEN ip
    ELSE IF ~IsDigitStr(last) THEN ip
    ELSE IF ToInt(last) > 255 THEN ip
    ELSE LET parts == Split(ip, ".")
         IN  JoinDot(<<parts[1], parts[2], parts[3], ToStr(ToInt(last))>>)

\* _build_remote_from_shortcut on (sc.remote, id_override, default_subnet):
\* (ok, remote); not ok when _parse_remote raises ValueError
_build_remote_from_shortcut(remote, id_override, default_subnet) ==
    LET pr     == _parse_remote(remote)
        k      == IndexOf(pr.left, "@", 1)
        prefix == IF k = 0 THEN <<>> ELSE SubSeq(pr.left, 1, k)
        host   == Strip(HostOf(pr.left), {" "})
        new_host ==
            IF _is_ipv4(host) THEN _replace_last_octet(host, id_override)
            ELSE IF default_subnet # <<>> /\ IsDigitStr(id_override)
                    /\ ToInt(id_override) <= 255
                 THEN default_subnet \o <<".">> \o ToStr(ToInt(id_override))
                 ELSE host
    IN  IF id_override = <<>> THEN [ok |-> TRUE, remote |-> remote]
        ELSE IF ~pr.ok THEN [ok |-> FALSE, remote |-> <<>>]
        ELSE [ok |-> TRUE, remote |-> prefix \o new_host \o <<":">> \o pr.right]

\* _validate_default_subnet: (ok, subnet)
_validate_default_subnet(sn) ==
    LET parts == Split(Strip(sn, {" "}), ".")
    IN  IF /\ Len(parts) = 3
           /\ \A i \in 1..3 : IsDigitStr(parts[i]) /\ ToInt(parts[i]) <= 255
        THEN [ok |-> TRUE, subnet |-> JoinDot([i \in 1..3 |-> ToStr(ToInt(parts[i]))])]
        ELSE [ok |-> FALSE, subnet |-> <<>>]

(***************************************************************************)
(* Paths                                                                   *)
(***************************************************************************)
RootDir == <<>>                 \* "/"
Mnt == <<"m">>                  \* the component of the mount root
Etc == <<"e">>                  \* a directory outside the mount root
A == <<"a">>                    \* a mount directory name
Lnk == <<"l">>                  \* a name that may be a symbolic link
LnkRoot == <<"r">>              \* a name that may be a symbolic link to the mount root
DotDot == <<".", ".">>

\* /m, /m/a, /m/a/a, ...
Chain(k) == <<Mnt>> \o [i \in 1..k |-> A]

\* canonical paths of the model's file system
CPaths == {RootDir, <<Etc>>, <<Mnt, Lnk>>} \cup {Chain(k) : k \in 0..MaxNest}

\* paths a caller can name: canonical ones, through "..", through the link
PathExprs == CPaths \cup {<<Mnt, DotDot, Etc>>, <<Mnt, A, DotDot>>, <<Mnt, Lnk, DotDot>>}

\* where a symbolic link points: /m/l leaves the mount root, /m/r is the
\* mount root itself
LinkTarget(l) == IF l = <<Mnt, LnkRoot>> THEN <<Mnt>> ELSE <<Etc>>

\* Path.parent
Parent(p) == IF p = <<>> THEN <<>> ELSE SubSeq(p, 1, Len(p) - 1)

\* Path.resolve(): follows symbolic links and "..", as os.path.realpath does
RECURSIVE ResolveFrom(_, _)
ResolveFrom(at, rest) ==
    IF rest = <<>> THEN at
    ELSE LET c    == Head(rest)
             nxt  == IF c = DotDot THEN Parent(at) ELSE Append(at, c)
             real == IF nxt \in links THEN LinkTarget(nxt) ELSE nxt
         IN  ResolveFrom(real, Tail(rest))

Resolve(p) == ResolveFrom(<<>>, p)

\* PurePath.relative_to(other) does not raise: other's parts lead self's parts
RelativeTo(pp, mr) == Len(mr) <= Len(pp) /\ SubSeq(pp, 1, Len(mr)) = mr

\* the check made on the paths as written, without resolve()
_ensure_under_mount_root_Lexical(mount_root, p) ==
    RelativeTo(p, mount_root)

\* _ensure_under_mount_root does not raise
_ensure_under_mount_root(mount_root, p) ==
    RelativeTo(Resolve(p), Resolve(mount_root))

\* the directory has no entry
IsEmptyDir(d) == ~\E c \in dirs \cup links : c # d /\ Parent(c) = d

(***************************************************************************)
(* MountStateOracle                                                        *)
(***************************************************************************)
FSTYPE_SSHFS == "fuse.sshfs"

\* the mount point of the file system that holds directory d, under mount table ms
RECURSIVE MountPointIn(_, _)
MountPointIn(ms, d) ==
    IF d \in ms \/ d = RootDir THEN d ELSE MountPointIn(ms, Parent(d))

\* stat(2) on the path fails with ENOTCONN: it is, or lies below, one of the
\* mount points st (among ms) whose sshfs process is gone
StatFails(ms, st, p) == \E m \in st \cap ms : RelativeTo(Resolve(p), m)

\* Path.exists() with directories ds, mount points ms of which st are stale:
\* "true", "false", or "raise" (an OSError that exists() does not swallow)
ExistsIn(ds, ms, st, p) ==
    IF StatFails(ms, st, p) THEN (IF exists_raises THEN "raise" ELSE "false")
    ELSE IF Resolve(p) \in ds THEN "true" ELSE "false"

\* findmnt -n -T <path> -o FSTYPE with directories ds and sshfs mount points ms:
\* a path that is a mount point matches its line of the mount table; any other
\* path is looked up with stat and gets the type of the file system holding it
\* ("/" is ext4), or no match when stat fails
FindmntIn(ds, ms, st, p) ==
    LET d == Resolve(p)
    IN  IF d \in ms THEN [rc |-> 0, out |-> FSTYPE_SSHFS]
        ELSE IF d \notin ds \/ StatFails(ms, st, p) THEN [rc |-> 1, out |-> ""]
        ELSE [rc |-> 0,
              out |-> IF MountPointIn(ms, d) \in ms THEN FSTYPE_SSHFS ELSE "ext4"]

\* is_sshfs_mounted in the system state s (directories, mount table, stale mounts):
\* "true", "false", or "raise" (an exception leaves it: findmnt not found, or the
\* OSError of Path.exists())
is_sshfs_mounted_in(s, p) ==
    LET exists == ExistsIn(s.dirs, s.mounts, s.stale, p)
        cp     == FindmntIn(s.dirs, s.mounts, s.stale, p)
    IN  IF exists = "raise" THEN "raise"
        ELSE IF exists = "false" THEN "false"
        ELSE IF ~findmnt_ok THEN "raise"
        ELSE IF cp.rc # 0 THEN "false"
        ELSE IF cp.out = FSTYPE_SSHFS THEN "true" ELSE "false"

\* is_sshfs_mounted taking a missing findmnt for "not mounted"
is_sshfs_mounted_NoInspector(p) ==
    LET r == is_sshfs_mounted_in([dirs |-> dirs, mounts |-> mounts, stale |-> stale], p)
    IN  IF ~findmnt_ok /\ r = "raise" THEN "false" ELSE r

\* is_sshfs_mounted, now
is_sshfs_mounted(p) ==
    is_sshfs_mounted_in([dirs |-> dirs, mounts |-> mounts, stale |-> stale], p)

\* _find_sshfs_mounts_system: the targets of all fuse.sshfs mounts
_find_sshfs_mounts_system == mounts

(***************************************************************************)
(* Configuration                                                           *)
(***************************************************************************)
ShortcutNames == {<<"s">>}

RemoteIp == <<"u", "@", "1", ".", "2", ".", "3", ".", "4", ":", "/", "a">>

RemoteBad == <<"h">>            \* no ":" in it

Remotes == {RemoteIp, RemoteBad}

NoShortcuts == [n \in {} |-> <<>>]

\* _read_config without a file or on an empty one: the defaults
DefaultConfig == [mount_root |-> <<Mnt>>, default_subnet |-> <<>>, shortcuts |-> NoShortcuts]

\* Shortcut(name=..., remote=..., mount_dir=...)
Shortcut(remote, mount_dir) == [remote |-> remote, mount_dir |-> mount_dir]

\* shortcuts = dict(cfg.shortcuts); shortcuts[name] = sc
PutShortcut(shortcuts, name, sc) ==
    [n \in DOMAIN shortcuts \cup {name} |-> IF n = name THEN sc ELSE shortcuts[n]]

\* shortcuts = dict(cfg.shortcuts); del shortcuts[name]
DelShortcut(shortcuts, name) ==
    [n \in DOMAIN shortcuts \ {name} |-> shortcuts[n]]

\* a or b, on strings
Or(a, b) == IF a # <<>> THEN a ELSE b

\* cfg.mount_root.expanduser().resolve()
MountRootResolved == Resolve(cfg.mount_root)

\* the mount point taken from the shortcut's name, whatever its mount_dir
_resolve_mountpoint_from_shortcut_ByName(name) ==
    IF name \notin DOMAIN cfg.shortcuts THEN [ok |-> FALSE, path |-> <<>>]
    ELSE [ok |-> TRUE,
          path |-> Resolve(Append(MountRootResolved, _sanitize_mount_dir(name)))]

\* _resolve_mountpoint_from_shortcut: (ok, path); not ok for an unknown shortcut
_resolve_mountpoint_from_shortcut(name) ==
    IF name \notin DOMAIN cfg.shortcuts THEN [ok |-> FALSE, path |-> <<>>]
    ELSE [ok |-> TRUE,
          path |-> Resolve(Append(MountRootResolved,
                      _sanitize_mount_dir(Or(cfg.shortcuts[name].mount_dir, name))))]

(***************************************************************************)
(* The running invocation                                                  *)
(***************************************************************************)
NoTarget == <<<<"?">>>>

\* one invocation at a time: cfg stands for the file, its bytes are not tracked
NoFile == [cfg |-> "none", extra |-> 0]

NoArgs == [shortcut |-> <<>>, remote |-> <<>>, id |-> <<>>, create_shortcut |-> <<>>,
           mount_dir |-> <<>>, path |-> NoTarget, all |-> FALSE, subnet |-> <<>>]

Event(op, path, res) == [op |-> op, path |-> path, res |-> res]

Snapshot == [dirs |-> dirs, mounts |-> mounts, stale |-> stale, cfg |-> cfg]

Idle == pc \in {"idle", "done"}

\* d and all its ancestors: what mkdir(parents=True, exist_ok=True) leaves behind
RECURSIVE WithParents(_)
WithParents(d) == IF d = <<>> THEN {<<>>} ELSE {d} \cup WithParents(Parent(d))

\* main(): the command returned `code`, or raised and main() returned 1
Finish(code) == pc' = "done" /\ exit' = code

\* the local variables of the invocation
Locals(t, r, n, q, c) ==
    /\ target' = t
    /\ remote_final' = r
    /\ mount_name' = n
    /\ queue' = q
    /\ cur' = c

\* a command starts: argparse has filled `a`, nothing has been done yet
Begin(c, a) ==
    /\ Idle
    /\ cmd' = c
    /\ args' = a
    /\ pre' = Snapshot

TypeOK ==
    /\ dirs \subseteq CPaths /\ RootDir \in dirs
    /\ links \subseteq {<<Mnt, Lnk>>}
    /\ mounts \subseteq dirs
    /\ stale \subseteq mounts
    /\ findmnt_ok \in BOOLEAN
    /\ exists_raises \in BOOLEAN
    /\ exit \in {-1, 0, 1}

Init ==
    /\ \E k \in -1..MaxNest : dirs = {RootDir, <<Etc>>} \cup {Chain(j) : j \in 0..k}
    /\ links \in SUBSET ({<<Mnt, Lnk>>} \cap {Append(d, Lnk) : d \in dirs})
    /\ mounts \in SUBSET ({<<Etc>>, Chain(MaxNest)} \cap dirs)
    /\ stale = {}
    /\ findmnt_ok \in BOOLEAN
    /\ exists_raises \in BOOLEAN
    /\ cfg = [mount_root |-> <<Mnt>>, default_subnet |-> <<>>, shortcuts |-> NoShortcuts]
    /\ pc = "idle"
    /\ cmd = "none"
    /\ args = NoArgs
    /\ target = NoTarget
    /\ remote_final = <<>>
    /\ mount_name = <<>>
    /\ queue = <<>>
    /\ cur = NoTarget
    /\ exit = -1
    /\ log = <<>>
    /\ pre = Snapshot
    /\ file = NoFile
    /\ editors = <<>>
    /\ procs = <<>>

(***************************************************************************)
(* create-shortcut, delete-shortcut                                        *)
(***************************************************************************)
cmd_create_shortcut(name, remote, mount_dir) ==
    LET inf == _infer_mount_dir_from_remote(remote)
        md  == _sanitize_mount_dir(Or(mount_dir, inf.name))
    IN  /\ Begin("create_shortcut", [NoArgs EXCEPT !.shortcut = name, !.remote = remote,
                                                   !.mount_dir = mount_dir])
        /\ IF mount_dir = <<>> /\ ~inf.ok
           THEN /\ Finish(1)
                /\ log' = <<>>
                /\ UNCHANGED cfg
           ELSE /\ Finish(0)
                /\ log' = <<Event("write_config", NoTarget, "ok")>>
                /\ cfg' = [cfg EXCEPT !.shortcuts = PutShortcut(@, name, Shortcut(remote, md))]
        /\ Locals(NoTarget, <<>>, <<>>, <<>>, NoTarget)
        /\ UNCHANGED <<dirs, links, file, editors, procs, mounts, findmnt_ok, exists_raises, stale>>

cmd_delete_shortcut(name) ==
    /\ Begin("delete_shortcut", [NoArgs EXCEPT !.shortcut = name])
    /\ Finish(0)
    /\ IF name \notin DOMAIN cfg.shortcuts
       THEN log' = <<>> /\ UNCHANGED cfg
       ELSE /\ log' = <<Event("write_config", NoTarget, "ok")>>
            /\ cfg' = [cfg EXCEPT !.shortcuts = DelShortcut(@, name)]
    /\ Locals(NoTarget, <<>>, <<>>, <<>>, NoTarget)
    /\ UNCHANGED <<dirs, links, file, editors, procs, mounts, findmnt_ok, exists_raises, stale>>

\* lines 617-622: a ValueError of _validate_default_subnet ends in main() with 1
cmd_set_default_subnet(sn) ==
    LET v == _validate_default_subnet(sn)
    IN  /\ Begin("set_default_subnet", [NoArgs EXCEPT !.subnet = sn])
        /\ IF ~v.ok
           THEN /\ Finish(1)
                /\ log' = <<>>
                /\ UNCHANGED cfg
           ELSE /\ Finish(0)
                /\ log' = <<Event("write_config", NoTarget, "ok")>>
                /\ cfg' = [cfg EXCEPT !.default_subnet = v.subnet]
        /\ Locals(NoTarget, <<>>, <<>>, <<>>, NoTarget)
        /\ UNCHANGED <<dirs, links, file, editors, procs, mounts, findmnt_ok, exists_raises, stale>>

(***************************************************************************)
(* mount                                                                   *)
(***************************************************************************)
\* lines 676-706: read the config, create the mount root, resolve the target
MountBegin(a) ==
    LET mr     == cfg.mount_root
        known  == a.shortcut \in DOMAIN cfg.shortcuts
        sc     == cfg.shortcuts[a.shortcut]
        built  == _build_remote_from_shortcut(sc.remote, a.id, cfg.default_subnet)
        inf    == _infer_mount_dir_from_remote(a.remote)
        bad    == \/ a.shortcut # <<>> /\ a.remote # <<>>
                  \/ a.shortcut = <<>> /\ a.remote = <<>>
                  \/ a.shortcut # <<>> /\ (~known \/ ~built.ok)
                  \/ a.shortcut = <<>> /\ a.mount_dir = <<>> /\ ~inf.ok
        name   == IF a.shortcut # <<>>
                  THEN _sanitize_mount_dir(Or(a.mount_dir, Or(sc.mount_dir, a.shortcut)))
                  ELSE _sanitize_mount_dir(Or(a.mount_dir, inf.name))
    IN  /\ Begin("mount", a)
        /\ dirs' = dirs \cup WithParents(Resolve(mr))
        /\ log' = <<Event("mkdir_root", Resolve(mr), "ok")>>
        /\ IF bad
           THEN /\ Finish(1)
                /\ Locals(NoTarget, <<>>, <<>>, <<>>, NoTarget)
           ELSE /\ pc' = "m_ensure"
                /\ exit' = -1
                /\ Locals(Resolve(Append(mr, name)),
                          IF a.shortcut # <<>> THEN built.remote ELSE a.remote,
                          name, <<>>, NoTarget)
        /\ UNCHANGED <<links, file, editors, procs, mounts, findmnt_ok, exists_raises, stale, cfg>>

\* line 707 left out: the mount goes on whatever the mount point resolves to
MountEnsure_Unchecked ==
    /\ pc = "m_ensure"
    /\ pc' = IF args.create_shortcut # <<>> THEN "m_save" ELSE "m_precheck"
    /\ UNCHANGED <<dirs, links, file, editors, procs, mounts, findmnt_ok, exists_raises, stale, cfg, cmd, args,
                   target, remote_final, mount_name, queue, cur, exit, log, pre>>

\* line 707
MountEnsure ==
    /\ pc = "m_ensure"
    /\ IF _ensure_under_mount_root(cfg.mount_root, target)
       THEN /\ log' = Append(log, Event("ensure", target, "ok"))
            /\ pc' = IF args.create_shortcut # <<>> THEN "m_save" ELSE "m_precheck"
            /\ UNCHANGED exit
       ELSE /\ log' = Append(log, Event("ensure", target, "raise"))
            /\ Finish(1)
    /\ UNCHANGED <<dirs, links, file, editors, procs, mounts, findmnt_ok, exists_raises, stale, cfg, cmd, args, target,
                   remote_final, mount_name, queue, cur, pre>>

\* lines 714-731: --create-shortcut NAME
MountSaveShortcut ==
    /\ pc = "m_save"
    /\ cfg' = [cfg EXCEPT !.shortcuts =
                  PutShortcut(@, args.create_shortcut, Shortcut(remote_final, mount_name))]
    /\ log' = Append(log, Event("write_config", target, "ok"))
    /\ pc' = "m_precheck"
    /\ UNCHANGED <<dirs, links, file, editors, procs, mounts, findmnt_ok, exists_raises, stale, cmd, args, target,
                   remote_final, mount_name, queue, cur, exit, pre>>

\* the guard of lines 733-736 letting a mounted target through
MountPrecheck_NoGuard ==
    LET r == is_sshfs_mounted(target)
    IN  /\ pc = "m_precheck"
        /\ log' = Append(log, Event("oracle", target, r))
        /\ IF r = "raise" THEN Finish(1) ELSE pc' = "m_mkdir" /\ UNCHANGED exit
        /\ UNCHANGED <<dirs, links, file, editors, procs, mounts, findmnt_ok, exists_raises, stale,
                       cfg, cmd, args, target,
                       remote_final, mount_name, queue, cur, pre>>

\* lines 733-736: the guard
MountPrecheck ==
    LET r == is_sshfs_mounted(target)
    IN  /\ pc = "m_precheck"
        /\ log' = Append(log, Event("oracle", target, r))
        /\ IF r = "true" THEN Finish(0)
           ELSE IF r = "raise" THEN Finish(1)
           ELSE pc' = "m_mkdir" /\ UNCHANGED exit
        /\ UNCHANGED <<dirs, links, file, editors, procs, mounts, findmnt_ok, exists_raises, stale,
                       cfg, cmd, args, target,
                       remote_final, mount_name, queue, cur, pre>>

\* line 738: mkdir(parents=True, exist_ok=True); it raises on a stale mount point
MountMkdir ==
    /\ pc = "m_mkdir"
    /\ IF StatFails(mounts, stale, target)
       THEN /\ log' = Append(log, Event("mkdir", target, "oserror"))
            /\ Finish(1)
            /\ UNCHANGED dirs
       ELSE /\ dirs' = dirs \cup WithParents(target)
            /\ log' = Append(log, Event("mkdir", target, "ok"))
            /\ pc' = "m_helper"
            /\ UNCHANGED exit
    /\ UNCHANGED <<links, file, editors, procs, mounts, findmnt_ok, exists_raises, stale, cfg, cmd, args, target,
                   remote_final, mount_name, queue, cur, pre>>

\* what running sshfs can do: mount and exit 0, exit 0 without a mount, exit non-zero
SshfsOutcomes(remote) ==
    IF _parse_remote(remote).ok THEN {"mounted", "nothing", "failed"} ELSE {"failed"}

\* line 758: _run_checked(["sshfs", remote_final, mountpoint, ...])
MountHelper ==
    /\ pc = "m_helper"
    /\ \E o \in SshfsOutcomes(remote_final) :
        /\ mounts' = IF o = "mounted" THEN mounts \cup {target} ELSE mounts
        /\ IF o = "failed"
           THEN /\ log' = Append(log, Event("sshfs", target, "nonzero"))
                /\ Finish(1)
           ELSE /\ log' = Append(log, Event("sshfs", target, "zero"))
                /\ pc' = "m_verify"
                /\ UNCHANGED exit
    /\ UNCHANGED <<dirs, links, file, editors, procs, findmnt_ok, exists_raises, stale, cfg, cmd, args, target,
                   remote_final, mount_name, queue, cur, pre>>

\* lines 760-763 trusting the exit status of sshfs
MountVerify_Trusting ==
    LET r == is_sshfs_mounted(target)
    IN  /\ pc = "m_verify"
        /\ log' = Append(log, Event("oracle", target, r))
        /\ Finish(0)
        /\ UNCHANGED <<dirs, links, file, editors, procs, mounts, findmnt_ok, exists_raises, stale,
                       cfg, cmd, args, target,
                       remote_final, mount_name, queue, cur, pre>>

\* lines 760-763: the re-query
MountVerify ==
    LET r == is_sshfs_mounted(target)
    IN  /\ pc = "m_verify"
        /\ log' = Append(log, Event("oracle", target, r))
        /\ IF r = "true" THEN Finish(0) ELSE Finish(1)
        /\ UNCHANGED <<dirs, links, file, editors, procs, mounts, findmnt_ok, exists_raises, stale,
                       cfg, cmd, args, target,
                       remote_final, mount_name, queue, cur, pre>>

\* the arguments of `sshfsman mount` the model runs
MountArgs ==
    {[NoArgs EXCEPT !.shortcut = s, !.id = i, !.mount_dir = d] :
        s \in ShortcutNames, i \in {<<>>, <<"7">>}, d \in {<<>>, Lnk}}
    \cup {[NoArgs EXCEPT !.remote = r, !.mount_dir = d] :
            r \in Remotes, d \in {<<>>, Lnk}}
    \cup {[NoArgs EXCEPT !.remote = r, !.create_shortcut = c] :
            r \in Remotes, c \in ShortcutNames}
    \cup {NoArgs, [NoArgs EXCEPT !.shortcut = <<"s">>, !.remote = RemoteIp]}

cmd_mount ==
    \/ \E a \in MountArgs : MountBegin(a)
    \/ MountEnsure
    \/ MountSaveShortcut
    \/ MountPrecheck
    \/ MountMkdir
    \/ MountHelper
    \/ MountVerify

(***************************************************************************)
(* _safe_prune_empty_dirs                                                  *)
(***************************************************************************)
\* a removal that, like shutil.rmtree, does not need the directory to be empty
RmdirOk_Rmtree(d) ==
    /\ d \in dirs /\ d # RootDir
    /\ d \notin mounts /\ ~StatFails(mounts, stale, d)

\* Path.rmdir() succeeds: an existing, empty directory that is no mount point
RmdirOk(d) ==
    /\ d \in dirs /\ IsEmptyDir(d) /\ d # RootDir
    /\ d \notin mounts /\ ~StatFails(mounts, stale, d)

\* _safe_prune_empty_dirs returned to its caller
PruneReturn ==
    IF cmd = "unmount_all" THEN pc' = "ua_next" /\ UNCHANGED exit ELSE Finish(0)

\* an exception inside _safe_prune_empty_dirs swallowed: it returns
PruneRaise_Silent ==
    IF cmd = "unmount_all" THEN pc' = "ua_next" /\ UNCHANGED exit ELSE Finish(0)

\* an exception left _safe_prune_empty_dirs: only unmount-all --all swallows it
PruneRaise ==
    IF cmd = "unmount_all" /\ args.all THEN pc' = "ua_next" /\ UNCHANGED exit ELSE Finish(1)

\* the loop going on with the directory it has just removed
PruneUp_Stay(c) == c

\* lines 360-363: cur = cur.parent
PruneUp(c) == Parent(c)

\* one iteration of the loop, lines 346-363
PruneStep ==
    LET mount_root == MountRootResolved
        r == is_sshfs_mounted(cur)
    IN  /\ pc = "prune"
        /\ IF cur = mount_root
           THEN /\ PruneReturn
                /\ UNCHANGED <<dirs, cur, log>>
           ELSE IF ~_ensure_under_mount_root(mount_root, cur)
           THEN /\ PruneRaise
                /\ log' = Append(log, Event("ensure", cur, "raise"))
                /\ UNCHANGED <<dirs, cur>>
           ELSE IF r # "false"
           THEN /\ IF r = "true" THEN PruneReturn ELSE PruneRaise
                /\ log' = log \o <<Event("ensure", cur, "ok"), Event("oracle", cur, r)>>
                /\ UNCHANGED <<dirs, cur>>
           ELSE IF ~RmdirOk(cur)
           THEN /\ PruneReturn
                /\ log' = log \o <<Event("ensure", cur, "ok"), Event("oracle", cur, r),
                                   Event("rmdir", cur, "oserror")>>
                /\ UNCHANGED <<dirs, cur>>
           ELSE /\ dirs' = dirs \ {cur}
                /\ log' = log \o <<Event("ensure", cur, "ok"), Event("oracle", cur, r),
                                   Event("rmdir", cur, "ok")>>
                /\ IF Parent(cur) = cur
                   THEN PruneReturn /\ UNCHANGED cur
                   ELSE cur' = PruneUp(cur) /\ UNCHANGED <<pc, exit>>
        /\ UNCHANGED <<links, file, editors, procs, mounts, findmnt_ok, exists_raises, stale,
                       cfg, cmd, args, target, remote_final,
                       mount_name, queue, pre>>

\* a direct call _safe_prune_empty_dirs(mount_root, start)
PruneCall(start) ==
    /\ Begin("prune", [NoArgs EXCEPT !.path = start])
    /\ Locals(NoTarget, <<>>, <<>>, <<>>, Resolve(start))
    /\ pc' = "prune"
    /\ exit' = -1
    /\ log' = <<>>
    /\ UNCHANGED <<dirs, links, file, editors, procs, mounts, findmnt_ok, exists_raises, stale, cfg>>

(***************************************************************************)
(* unmount                                                                 *)
(***************************************************************************)
\* lines 790-804: --path first, then --shortcut
cmd_unmount(a) ==
    LET rs == _resolve_mountpoint_from_shortcut(a.shortcut)
    IN  /\ Begin("unmount", a)
        /\ log' = <<>>
        /\ IF a.path # NoTarget
           THEN /\ Locals(Resolve(a.path), <<>>, <<>>, <<>>, NoTarget)
                /\ pc' = "u_ensure" /\ exit' = -1
           ELSE IF a.shortcut # <<>> /\ rs.ok
           THEN /\ Locals(rs.path, <<>>, <<>>, <<>>, NoTarget)
                /\ pc' = "u_ensure" /\ exit' = -1
           ELSE /\ Finish(1)
                /\ Locals(NoTarget, <<>>, <<>>, <<>>, NoTarget)
        /\ UNCHANGED <<dirs, links, file, editors, procs, mounts, findmnt_ok, exists_raises, stale, cfg>>

\* lines 767-768 of _unmount_one
UnmountEnsure ==
    /\ pc = "u_ensure"
    /\ target' = Resolve(target)
    /\ IF _ensure_under_mount_root(MountRootResolved, Resolve(target))
       THEN /\ log' = Append(log, Event("ensure", Resolve(target), "ok"))
            /\ pc' = "u_precheck"
            /\ UNCHANGED exit
       ELSE /\ log' = Append(log, Event("ensure", Resolve(target), "raise"))
            /\ Finish(1)
    /\ UNCHANGED <<dirs, links, file, editors, procs, mounts, findmnt_ok, exists_raises, stale, cfg, cmd, args,
                   remote_final, mount_name, queue, cur, pre>>

\* lines 770-771 letting an unmounted target through
UnmountPrecheck_NoGuard ==
    LET r == is_sshfs_mounted(target)
    IN  /\ pc = "u_precheck"
        /\ log' = Append(log, Event("oracle", target, r))
        /\ IF r = "raise" THEN Finish(1) ELSE pc' = "u_helper" /\ UNCHANGED exit
        /\ UNCHANGED <<dirs, links, file, editors, procs, mounts, findmnt_ok, exists_raises, stale,
                       cfg, cmd, args, target,
                       remote_final, mount_name, queue, cur, pre>>

\* lines 770-771
UnmountPrecheck ==
    LET r == is_sshfs_mounted(target)
    IN  /\ pc = "u_precheck"
        /\ log' = Append(log, Event("oracle", target, r))
        /\ IF r = "true" THEN pc' = "u_helper" /\ UNCHANGED exit
           ELSE IF r = "raise" THEN Finish(1)
           ELSE PruneReturn
        /\ UNCHANGED <<dirs, links, file, editors, procs, mounts, findmnt_ok, exists_raises, stale,
                       cfg, cmd, args, target,
                       remote_final, mount_name, queue, cur, pre>>

\* what the unmount helper can do to path t: unmount it and exit 0, exit 0 with the
\* path still mounted, exit non-zero
UmountOutcomes(t) ==
    IF t \in mounts THEN {"unmounted", "nothing", "failed"} ELSE {"failed"}

\* the probe `fusermount3 -V`: FileNotFoundError when fusermount3 is not installed
Probe(t, use_fuse) == Event("probe", t, IF use_fuse THEN "found" ELSE "absent")

\* the helper chosen against the probe: umount when fusermount3 is there
RunUmountHelper_LegacyFirst(t, next) ==
    \E use_fuse \in BOOLEAN, o \in UmountOutcomes(t) :
        LET tool == IF use_fuse THEN "umount" ELSE "fusermount3"
        IN  /\ mounts' = IF o = "unmounted" THEN mounts \ {t} ELSE mounts
            /\ stale' = IF o = "unmounted" THEN stale \ {t} ELSE stale
            /\ IF o = "failed"
               THEN /\ log' = log \o <<Probe(t, use_fuse), Event(tool, t, "nonzero")>>
                    /\ Finish(1)
               ELSE /\ log' = log \o <<Probe(t, use_fuse), Event(tool, t, "zero")>>
                    /\ pc' = next
                    /\ UNCHANGED exit

\* the probe `fusermount3 -V`, then fusermount3 -u or umount, under _run_checked
RunUmountHelper(t, next) ==
    \E use_fuse \in BOOLEAN, o \in UmountOutcomes(t) :
        LET tool == IF use_fuse THEN "fusermount3" ELSE "umount"
        IN  /\ mounts' = IF o = "unmounted" THEN mounts \ {t} ELSE mounts
            /\ stale' = IF o = "unmounted" THEN stale \ {t} ELSE stale
            /\ IF o = "failed"
               THEN /\ log' = log \o <<Probe(t, use_fuse), Event(tool, t, "nonzero")>>
                    /\ Finish(1)
               ELSE /\ log' = log \o <<Probe(t, use_fuse), Event(tool, t, "zero")>>
                    /\ pc' = next
                    /\ UNCHANGED exit

\* lines 773-782
UnmountHelper ==
    /\ pc = "u_helper"
    /\ RunUmountHelper(target, "u_verify")
    /\ UNCHANGED <<dirs, links, file, editors, procs, findmnt_ok, exists_raises, cfg, cmd, args, target,
                   remote_final, mount_name, queue, cur, pre>>

\* lines 784-787 trusting the exit status of the unmount helper
UnmountVerify_Trusting ==
    /\ pc = "u_verify"
    /\ pc' = "prune"
    /\ cur' = Resolve(target)
    /\ UNCHANGED <<dirs, links, file, editors, procs, mounts, findmnt_ok, exists_raises, stale, cfg, cmd, args, target,
                   remote_final, mount_name, queue, exit, log, pre>>

\* lines 784-787
UnmountVerify ==
    LET r == is_sshfs_mounted(target)
    IN  /\ pc = "u_verify"
        /\ log' = Append(log, Event("oracle", target, r))
        /\ IF r = "false"
           THEN /\ pc' = "prune"
                /\ cur' = Resolve(target)
                /\ UNCHANGED exit
           ELSE /\ Finish(1)
                /\ UNCHANGED cur
        /\ UNCHANGED <<dirs, links, file, editors, procs, mounts, findmnt_ok, exists_raises, stale,
                       cfg, cmd, args, target,
                       remote_final, mount_name, queue, pre>>

_unmount_one ==
    \/ UnmountEnsure
    \/ UnmountPrecheck
    \/ UnmountHelper
    \/ UnmountVerify

(***************************************************************************)
(* unmount-all                                                             *)
(***************************************************************************)
\* the characters of the model in ASCII order
AsciiOrder == <<" ", "-", ".", "/", "0", "1", "2", "3", "4", "5", "6", "7", "8", "9",
                ":", "?", "@", "_", "a", "b", "c", "d", "e", "f", "g", "h", "i", "j",
                "k", "l", "m", "n", "o", "p", "q", "r", "s", "t", "u", "v", "w", "x",
                "y", "z">>

CharRank(c) == CHOOSE i \in 1..Len(AsciiOrder) : AsciiOrder[i] = c

\* str(path)
RECURSIVE StrOfParts(_)
StrOfParts(p) == IF p = <<>> THEN <<>> ELSE <<"/">> \o Head(p) \o StrOfParts(Tail(p))

StrOf(p) == IF p = <<>> THEN <<"/">> ELSE StrOfParts(p)

\* s < t for Python strings
RECURSIVE StrLess(_, _)
StrLess(s, t) ==
    IF t = <<>> THEN FALSE
    ELSE IF s = <<>> THEN TRUE
    ELSE IF Head(s) = Head(t) THEN StrLess(Tail(s), Tail(t))
    ELSE CharRank(Head(s)) < CharRank(Head(t))

\* key(p) < key(q) for key = lambda p: (len(str(p)), str(p))
KeyLess(p, q) ==
    \/ Len(StrOf(p)) < Len(StrOf(q))
    \/ Len(StrOf(p)) = Len(StrOf(q)) /\ StrLess(StrOf(p), StrOf(q))

\* sorted(set(targets), key=...) without reverse=True
RECURSIVE SortedReverse_Ascending(_)
SortedReverse_Ascending(S) ==
    IF S = {} THEN <<>>
    ELSE LET m == CHOOSE x \in S : \A y \in S \ {x} : KeyLess(x, y)
         IN  <<m>> \o SortedReverse_Ascending(S \ {m})

\* sorted(set(targets), key=..., reverse=True)
RECURSIVE SortedReverse(_)
SortedReverse(S) ==
    IF S = {} THEN <<>>
    ELSE LET m == CHOOSE x \in S : \A y \in S \ {x} : KeyLess(y, x)
         IN  <<m>> \o SortedReverse(S \ {m})

\* lines 808-823
UnmountAllBegin(all) ==
    LET mr      == MountRootResolved
        found   == {Resolve(t) : t \in _find_sshfs_mounts_system}
        targets == {t \in found : all \/ RelativeTo(t, mr)}
    IN  /\ Begin("unmount_all", [NoArgs EXCEPT !.all = all])
        /\ log' = <<>>
        /\ IF findmnt_ok
           THEN /\ Locals(NoTarget, <<>>, <<>>, SortedReverse(targets), NoTarget)
                /\ pc' = "ua_next" /\ exit' = -1
           ELSE /\ Finish(1)
                /\ Locals(NoTarget, <<>>, <<>>, <<>>, NoTarget)
        /\ UNCHANGED <<dirs, links, file, editors, procs, mounts, findmnt_ok, exists_raises, stale, cfg>>

\* `for t in targets:`, lines 825-826 and 849
UnmountAllNext ==
    /\ pc = "ua_next"
    /\ IF queue = <<>>
       THEN /\ Finish(0)
            /\ UNCHANGED <<target, queue>>
       ELSE /\ target' = Head(queue)
            /\ queue' = Tail(queue)
            /\ pc' = IF args.all THEN "ua_check" ELSE "u_ensure"
            /\ UNCHANGED exit
    /\ UNCHANGED <<dirs, links, file, editors, procs, mounts, findmnt_ok, exists_raises, stale, cfg, cmd, args,
                   remote_final, mount_name, cur, log, pre>>

\* line 827
UnmountAllCheck ==
    LET r == is_sshfs_mounted(target)
    IN  /\ pc = "ua_check"
        /\ log' = Append(log, Event("oracle", target, r))
        /\ IF r = "true" THEN pc' = "ua_helper" /\ UNCHANGED exit
           ELSE IF r = "raise" THEN Finish(1)
           ELSE pc' = "ua_next" /\ UNCHANGED exit
        /\ UNCHANGED <<dirs, links, file, editors, procs, mounts, findmnt_ok, exists_raises, stale,
                       cfg, cmd, args, target,
                       remote_final, mount_name, queue, cur, pre>>

\* lines 828-837
UnmountAllHelper ==
    /\ pc = "ua_helper"
    /\ RunUmountHelper(target, "ua_verify")
    /\ UNCHANGED <<dirs, links, file, editors, procs, findmnt_ok, exists_raises, cfg, cmd, args, target,
                   remote_final, mount_name, queue, cur, pre>>

\* lines 839-846
UnmountAllVerify ==
    LET r == is_sshfs_mounted(target)
    IN  /\ pc = "ua_verify"
        /\ log' = Append(log, Event("oracle", target, r))
        /\ IF r # "false"
           THEN Finish(1) /\ UNCHANGED cur
           ELSE IF RelativeTo(target, MountRootResolved)
           THEN pc' = "prune" /\ cur' = Resolve(target) /\ UNCHANGED exit
           ELSE pc' = "ua_next" /\ UNCHANGED <<cur, exit>>
        /\ UNCHANGED <<dirs, links, file, editors, procs, mounts, findmnt_ok, exists_raises, stale,
                       cfg, cmd, args, target,
                       remote_final, mount_name, queue, pre>>

cmd_unmount_all ==
    \/ \E all \in BOOLEAN : UnmountAllBegin(all)
    \/ UnmountAllNext
    \/ UnmountAllCheck
    \/ UnmountAllHelper
    \/ UnmountAllVerify

(***************************************************************************)
(* Specification                                                           *)
(***************************************************************************)
\* between two invocations the sshfs process of a mount dies (network loss, kill):
\* the mount stays in the mount table and stat on it fails
TransportLost ==
    /\ Idle
    /\ Cardinality(stale) < MaxStale
    /\ \E m \in mounts \ stale : stale' = stale \cup {m}
    /\ pc' = "idle" /\ cmd' = "none" /\ args' = NoArgs /\ exit' = -1 /\ log' = <<>>
    /\ Locals(NoTarget, <<>>, <<>>, <<>>, NoTarget)
    /\ pre' = [Snapshot EXCEPT !.stale = stale']
    /\ UNCHANGED <<dirs, links, file, editors, procs, mounts, findmnt_ok, exists_raises, cfg>>

UnmountArgs ==
    {[NoArgs EXCEPT !.path = p] : p \in PathExprs}
        \cup {[NoArgs EXCEPT !.shortcut = s] : s \in ShortcutNames}

Next ==
    \/ cmd_mount
    \/ \E a \in UnmountArgs : cmd_unmount(a)
    \/ _unmount_one
    \/ cmd_unmount_all
    \/ PruneStep
    \/ \E p \in PathExprs : PruneCall(p)
    \/ \E n \in ShortcutNames, r \in Remotes, d \in {<<>>, A} : cmd_create_shortcut(n, r, d)
    \/ \E n \in ShortcutNames : cmd_delete_shortcut(n)
    \/ TransportLost

Spec == Init /\ [][Next]_vars

\* the commands up to their call of _ensure_under_mount_root, from every file system
EnsureNext ==
    \/ \E a \in MountArgs : MountBegin(a)
    \/ MountEnsure
    \/ \E a \in UnmountArgs : cmd_unmount(a)
    \/ UnmountEnsure

SpecEnsure == Init /\ [][EnsureNext]_vars

(***************************************************************************)
(* The scenario of shortcut `phone`                                        *)
(***************************************************************************)
Tmp == <<"t", "m", "p">>
X == <<"x">>
Phone == <<"p", "h", "o", "n", "e">>
Sdcard == <<"s", "d", "c", "a", "r", "d">>
Override77 == <<"7", "7">>

\* u@192.0.2.10:/sdcard
RemotePhone ==
    <<"u", "@", "1", "9", "2", ".", "0", ".", "2", ".", "1", "0", ":", "/">> \o Sdcard

\* u@192.0.2.77:/sdcard
RemotePhone77 ==
    <<"u", "@", "1", "9", "2", ".", "0", ".", "2", ".", "7", "7", ":", "/">> \o Sdcard

\* mount_root = /tmp/x, no shortcut yet; /tmp/x may or may not exist
ScenarioInit ==
    /\ dirs \in {{RootDir, <<Tmp>>}, {RootDir, <<Tmp>>, <<Tmp, X>>},
                 {RootDir, <<Tmp>>, <<Tmp, X>>, <<Tmp, X, Phone>>}}
    /\ links = {}
    /\ mounts = {}
    /\ stale = {}
    /\ findmnt_ok \in BOOLEAN
    /\ exists_raises \in BOOLEAN
    /\ cfg = [mount_root |-> <<Tmp, X>>, default_subnet |-> <<>>, shortcuts |-> NoShortcuts]
    /\ pc = "idle"
    /\ cmd = "none"
    /\ args = NoArgs
    /\ target = NoTarget
    /\ remote_final = <<>>
    /\ mount_name = <<>>
    /\ queue = <<>>
    /\ cur = NoTarget
    /\ exit = -1
    /\ log = <<>>
    /\ pre = Snapshot
    /\ file = NoFile
    /\ editors = <<>>
    /\ procs = <<>>

\* create-shortcut phone --remote u@192.0.2.10:/sdcard; mount --shortcut phone 77;
\* unmount --shortcut phone
ScenarioNext ==
    \/ cmd_create_shortcut(Phone, RemotePhone, <<>>)
    \/ MountBegin([NoArgs EXCEPT !.shortcut = Phone, !.id = Override77])
    \/ MountEnsure
    \/ MountPrecheck
    \/ MountMkdir
    \/ MountHelper
    \/ MountVerify
    \/ cmd_unmount([NoArgs EXCEPT !.shortcut = Phone])
    \/ _unmount_one
    \/ PruneStep

SpecScenario == ScenarioInit /\ [][ScenarioNext]_vars

(***************************************************************************)
(* The directory name cmd_mount derives                                    *)
(***************************************************************************)
B == <<"b">>

\* u@h:/ : a remote whose path has no leaf
RemoteNoLeaf == <<"u", "@", "h", ":", "/">>

\* u@h:/.. : a remote whose leaf sanitises to nothing
RemoteDots == <<"u", "@", "h", ":", "/", ".", ".">>

\* u@-:/ : no leaf, and a host that sanitises to nothing
RemoteDash == <<"u", "@", "-", ":", "/">>

DeriveArgs ==
    {[NoArgs EXCEPT !.shortcut = n, !.mount_dir = d] :
        n \in ShortcutNames, d \in {<<>>, Lnk, <<".">>}}
    \cup {[NoArgs EXCEPT !.remote = r, !.mount_dir = d] :
            r \in {RemoteIp, RemoteNoLeaf, RemoteDots, RemoteDash}, d \in {<<>>, Lnk, <<".">>}}

DeriveNext ==
    \/ \E n \in ShortcutNames, d \in {<<>>, B} : cmd_create_shortcut(n, RemoteIp, d)
    \/ \E a \in DeriveArgs : MountBegin(a)

SpecDerive == Init /\ [][DeriveNext]_vars

(***************************************************************************)
(* The remote cmd_mount builds from a shortcut and an override             *)
(***************************************************************************)
Net192 == <<"1", "9", "2", ".", "0", ".", "2">>
Host192 == Net192 \o <<".", "1", "0">>
HostName == <<"m", "y", "h", "o", "s", "t", ".", "e", "x", "a", "m", "p", "l", "e">>
Host999 == <<"9", "9", "9", ".", "0", ".", "2", ".", "1", "0">>
Subnet10 == <<"1", "0", ".", "0", ".", "0">>
PathPart == <<"/", "p", "a", "t", "h">>

Prefixes == {<<>>, <<"u", "s", "e", "r", "@">>}
HostsIPv4 == {Host192}
HostsOther == {HostName, Host999}
OverridesInRange == {<<"4", "2">>, <<"5">>, <<"0">>, <<"2", "5", "5">>}
OverridesOther == {<<"2", "5", "6">>, <<"3", "0", "0">>, <<"x">>, <<"4", "x">>}

ComposeRemote(prefix, host, path) == prefix \o host \o <<":">> \o path

ResolveRemotes ==
    {ComposeRemote(pf, h, PathPart) : pf \in Prefixes, h \in HostsIPv4 \cup HostsOther}

ResolveInit ==
    /\ dirs = {RootDir, <<Mnt>>}
    /\ links = {}
    /\ mounts = {}
    /\ stale = {}
    /\ findmnt_ok = TRUE
    /\ exists_raises = FALSE
    /\ cfg = DefaultConfig
    /\ pc = "idle"
    /\ cmd = "none"
    /\ args = NoArgs
    /\ target = NoTarget
    /\ remote_final = <<>>
    /\ mount_name = <<>>
    /\ queue = <<>>
    /\ cur = NoTarget
    /\ exit = -1
    /\ log = <<>>
    /\ pre = Snapshot
    /\ file = NoFile
    /\ editors = <<>>
    /\ procs = <<>>

ResolveNext ==
    \/ \E n \in ShortcutNames, r \in ResolveRemotes : cmd_create_shortcut(n, r, <<>>)
    \/ cmd_set_default_subnet(Subnet10)
    \/ \E n \in ShortcutNames, i \in {<<>>} \cup OverridesInRange \cup OverridesOther :
            MountBegin([NoArgs EXCEPT !.shortcut = n, !.id = i])

SpecResolve == ResolveInit /\ [][ResolveNext]_vars

(***************************************************************************)
(* _sanitize_mount_dir on every short name, and on its own result          *)
(***************************************************************************)
NameChars == {"a", "b", "_", ".", "-", "/", " "}

Names == UNION {[1..k -> NameChars] : k \in 0..MaxLen}

SanitizeInit ==
    /\ dirs = {RootDir, <<Mnt>>}
    /\ links = {}
    /\ mounts = {}
    /\ stale = {}
    /\ findmnt_ok = TRUE
    /\ exists_raises = FALSE
    /\ cfg = DefaultConfig
    /\ pc = "idle"
    /\ cmd = "none"
    /\ args \in {[NoArgs EXCEPT !.mount_dir = x] : x \in Names}
    /\ target = NoTarget
    /\ remote_final = <<>>
    /\ mount_name = <<>>
    /\ queue = <<>>
    /\ cur = NoTarget
    /\ exit = -1
    /\ log = <<>>
    /\ pre = Snapshot
    /\ file = NoFile
    /\ editors = <<>>
    /\ procs = <<>>

\* mount_dir = _sanitize_mount_dir(name), as create-shortcut and mount store it
SanitizeName ==
    /\ pc = "idle"
    /\ mount_name' = _sanitize_mount_dir(args.mount_dir)
    /\ pc' = "sanitized"
    /\ UNCHANGED <<dirs, links, file, editors, procs, mounts, stale, findmnt_ok, exists_raises, cfg,
                   cmd, args, target, remote_final, queue, cur, exit, log, pre>>

\* _read_config, line 137: the stored mount_dir goes through _sanitize_mount_dir again
ReloadName ==
    /\ pc = "sanitized"
    /\ cfg' = [cfg EXCEPT !.shortcuts =
                  PutShortcut(@, <<"s">>, Shortcut(RemoteIp, _sanitize_mount_dir(mount_name)))]
    /\ pc' = "reloaded"
    /\ UNCHANGED <<dirs, links, file, editors, procs, mounts, stale, findmnt_ok, exists_raises,
                   cmd, args, target, remote_final, mount_name, queue, cur, exit, log, pre>>

SanitizeNext == SanitizeName \/ ReloadName

SpecSanitize == SanitizeInit /\ [][SanitizeNext]_vars

(***************************************************************************)
(* Two invocations edit the configuration file at the same time            *)
(***************************************************************************)
Editors == {1, 2}

Subnet123 == <<"1", ".", "2", ".", "3">>

\* len(esc(str)): a backslash and a double quote get a backslash in front
EscLen(str) == Len(str) + Cardinality({i \in 1..Len(str) : str[i] \in {"\\", "\""}})

\* bytes of the four lines and the blank line _write_config emits for a shortcut
\* (id is the name, the optional fields are unset)
ShortcutLen(name, sc) ==
    (12 + EscLen(name) + 2 + 1) + (6 + EscLen(name) + 1 + 1)
        + (10 + EscLen(sc.remote) + 1 + 1) + (13 + EscLen(sc.mount_dir) + 1 + 1) + 1

RECURSIVE ShortcutsLen(_, _)
ShortcutsLen(shortcuts, names) ==
    IF names = {} THEN 0
    ELSE LET n == CHOOSE x \in names : TRUE
         IN  ShortcutLen(n, shortcuts[n]) + ShortcutsLen(shortcuts, names \ {n})

\* len("\n".join(lines).rstrip() + "\n") for the lines of _write_config
TextLen(c) ==
    9 + (14 + EscLen(StrOf(c.mount_root)) + 1 + 1)
      + (IF c.default_subnet # <<>> THEN 18 + EscLen(c.default_subnet) + 1 + 1 ELSE 0)
      + 1 + 12
      + ShortcutsLen(c.shortcuts, DOMAIN c.shortcuts)
      - (IF DOMAIN c.shortcuts # {} THEN 1 ELSE 0)

\* the file after open(path, "w"): no bytes
EmptyFile == [state |-> "empty", cfg |-> DefaultConfig, extra |-> 0, by |-> 0]

\* the file holding the text of configuration c, written by invocation i
FileOf(c, i) == [state |-> "text", cfg |-> c, extra |-> 0, by |-> i]

FileLen(f) == IF f.state = "empty" THEN 0 ELSE TextLen(f.cfg) + f.extra

\* write(text of c) at offset 0 of a file opened before: bytes of the file beyond
\* the new text stay where they are
WriteAt0(f, c, i) ==
    [state |-> "text", cfg |-> c, by |-> i,
     extra |-> IF FileLen(f) > TextLen(c) THEN FileLen(f) - TextLen(c) ELSE 0]

\* _read_config: the parsed file (with two invocations no one reads after a write
\* that left older bytes behind)
ReadConfig(f) == IF f.state = "empty" THEN DefaultConfig ELSE f.cfg

NoOp == [kind |-> "none", name |-> <<>>, remote |-> <<>>, mount_dir |-> <<>>, subnet |-> <<>>]

EditOps ==
    {[NoOp EXCEPT !.kind = "create_shortcut", !.name = n, !.remote = r, !.mount_dir = d] :
        n \in ShortcutNames, r \in Remotes, d \in {<<>>, A}}
    \cup {[NoOp EXCEPT !.kind = "delete_shortcut", !.name = n] : n \in ShortcutNames}
    \cup {[NoOp EXCEPT !.kind = "set_default_subnet", !.subnet = sn] :
            sn \in {Subnet123, <<"1", ".", "2">>}}

\* cfg2 of an editing command from the configuration it read: (ok, write, cfg)
Edited(op, c) ==
    IF op.kind = "create_shortcut"
    THEN LET inf == _infer_mount_dir_from_remote(op.remote)
             md  == _sanitize_mount_dir(Or(op.mount_dir, inf.name))
         IN  IF op.mount_dir = <<>> /\ ~inf.ok
             THEN [ok |-> FALSE, write |-> FALSE, cfg |-> c]
             ELSE [ok |-> TRUE, write |-> TRUE,
                   cfg |-> [c EXCEPT !.shortcuts =
                                PutShortcut(@, op.name, Shortcut(op.remote, md))]]
    ELSE IF op.kind = "delete_shortcut"
    THEN IF op.name \notin DOMAIN c.shortcuts
         THEN [ok |-> TRUE, write |-> FALSE, cfg |-> c]
         ELSE [ok |-> TRUE, write |-> TRUE,
               cfg |-> [c EXCEPT !.shortcuts = DelShortcut(@, op.name)]]
    ELSE LET v == _validate_default_subnet(op.subnet)
         IN  IF ~v.ok THEN [ok |-> FALSE, write |-> FALSE, cfg |-> c]
             ELSE [ok |-> TRUE, write |-> TRUE, cfg |-> [c EXCEPT !.default_subnet = v.subnet]]

EditorStart == [pc |-> "start", op |-> NoOp, seen |-> EmptyFile, mem |-> DefaultConfig, exit |-> -1]

MainVars == <<dirs, links, mounts, stale, findmnt_ok, exists_raises, cfg, pc, cmd, args,
              target, remote_final, mount_name, queue, cur, exit, log, pre, procs>>

\* invocation i starts: _read_config(), then cfg2 is built in memory
EditorRead(i, op) ==
    LET e == Edited(op, ReadConfig(file))
    IN  /\ editors[i].pc = "start"
        /\ editors' = [editors EXCEPT ![i] =
                [pc |-> IF e.write THEN "write" ELSE "done",
                 op |-> op, seen |-> file, mem |-> e.cfg,
                 exit |-> IF e.write THEN -1 ELSE IF e.ok THEN 0 ELSE 1]]
        /\ UNCHANGED <<file, MainVars>>

\* path.write_text: open(path, "w") truncates the file
EditorOpen(i) ==
    /\ editors[i].pc = "write"
    /\ file' = EmptyFile
    /\ editors' = [editors EXCEPT ![i].pc = "opened"]
    /\ UNCHANGED MainVars

\* path.write_text: write and close put the text at offset 0
EditorWrite(i) ==
    /\ editors[i].pc = "opened"
    /\ file' = WriteAt0(file, editors[i].mem, i)
    /\ editors' = [editors EXCEPT ![i].pc = "done", ![i].exit = 0]
    /\ UNCHANGED MainVars

ConfigInit ==
    /\ dirs = {RootDir, <<Mnt>>}
    /\ links = {}
    /\ mounts = {}
    /\ stale = {}
    /\ findmnt_ok = TRUE
    /\ exists_raises = FALSE
    /\ cfg = DefaultConfig
    /\ pc = "idle"
    /\ cmd = "none"
    /\ args = NoArgs
    /\ target = NoTarget
    /\ remote_final = <<>>
    /\ mount_name = <<>>
    /\ queue = <<>>
    /\ cur = NoTarget
    /\ exit = -1
    /\ log = <<>>
    /\ pre = Snapshot
    /\ file \in {FileOf(DefaultConfig, 0),
                 FileOf([DefaultConfig EXCEPT !.shortcuts =
                            PutShortcut(@, <<"s">>, Shortcut(RemoteIp, A))], 0)}
    /\ editors = [i \in Editors |-> EditorStart]
    /\ procs = <<>>

ConfigNext ==
    \/ \E i \in Editors, op \in EditOps : EditorRead(i, op)
    \/ \E i \in Editors : EditorOpen(i)
    \/ \E i \in Editors : EditorWrite(i)

SpecConfig == ConfigInit /\ [][ConfigNext]_vars

(***************************************************************************)
(* Shortcut attributes: create-shortcut with its optional flags, and what  *)
(* the next command reads back from the file it left                       *)
(***************************************************************************)
\* port: Optional[int] = None
NoPort == -1

Port22 == 22

\* argparse takes any int for -p/--port (type=int, lines 897 and 950)
Port70000 == 70000

KeyFile == <<"k">>

NoFlags == [port |-> NoPort, identity |-> <<>>, options |-> <<>>,
            readonly |-> FALSE, no_reconnect_defaults |-> FALSE]

\* Shortcut(name=..., id=..., remote=..., mount_dir=..., port=..., identity=...,
\*          options=..., readonly=..., no_reconnect_defaults=...); id is the name
ShortcutWith(remote, mount_dir, fl) ==
    [remote |-> remote, mount_dir |-> mount_dir, port |-> fl.port, identity |-> fl.identity,
     options |-> fl.options, readonly |-> fl.readonly,
     no_reconnect_defaults |-> fl.no_reconnect_defaults]

\* lines 663-672: every option is cut at its commas, the parts stripped, empty ones dropped
\* lines 667-670: the parts of one option, stripped, the empty ones dropped
RECURSIVE KeepParts(_)
KeepParts(ps) ==
    IF ps = <<>> THEN <<>>
    ELSE IF Strip(Head(ps), {" "}) = <<>> THEN KeepParts(Tail(ps))
    ELSE <<Strip(Head(ps), {" "})>> \o KeepParts(Tail(ps))

RECURSIVE _split_options(_)
_split_options(opts) ==
    IF opts = <<>> THEN <<>>
    ELSE KeepParts(Split(Head(opts), ",")) \o _split_options(Tail(opts))

\* lines 107-112 of _read_config: a stored port outside 1..65535 is read as None
LoadPort(p) == IF 1 <= p /\ p <= 65535 THEN p ELSE NoPort

\* lines 96-143 of _read_config: one [shortcuts.NAME] table as the reader returns it
LoadShortcut(sc) ==
    [remote |-> Strip(sc.remote, {" "}),
     mount_dir |-> _sanitize_mount_dir(Strip(sc.mount_dir, {" "})),
     port |-> LoadPort(sc.port),
     identity |-> Strip(sc.identity, {" "}),
     options |-> SelectSeq([i \in 1..Len(sc.options) |-> Strip(sc.options[i], {" "})],
                          LAMBDA o : o # <<>>),
     readonly |-> sc.readonly,
     no_reconnect_defaults |-> sc.no_reconnect_defaults]

\* _read_config on the file the last _write_config left: tables without a remote are skipped
LoadConfig(c) ==
    [mount_root |-> c.mount_root,
     default_subnet |-> Strip(c.default_subnet, {" "}),
     shortcuts |-> [n \in {m \in DOMAIN c.shortcuts : Strip(c.shortcuts[m].remote, {" "}) # <<>>}
                      |-> LoadShortcut(c.shortcuts[n])]]

ShortcutNames2 == {<<"s">>, <<"t">>}

RemoteB == <<"u", "@", "h", ":", "/", "b">>

OptAB == <<"a", ",", "b">>

\* the optional flags of create-shortcut: -p, -i, -o, --readonly, --no-reconnect-defaults
FlagSets ==
    {NoFlags,
     [NoFlags EXCEPT !.port = Port22, !.identity = KeyFile, !.readonly = TRUE],
     [NoFlags EXCEPT !.port = Port70000],
     [NoFlags EXCEPT !.options = <<OptAB>>, !.no_reconnect_defaults = TRUE]}

\* lines 577-603 with the optional flags: the file is read, the entry replaced, the file rewritten
CreateShortcutWith(name, remote, mount_dir, fl) ==
    LET inf == _infer_mount_dir_from_remote(remote)
        md  == _sanitize_mount_dir(Or(mount_dir, inf.name))
        c   == LoadConfig(cfg)
        new == ShortcutWith(remote, md, [fl EXCEPT !.options = _split_options(@)])
    IN  /\ Begin("create_shortcut", [shortcut |-> name, remote |-> remote,
                                      mount_dir |-> mount_dir, flags |-> fl])
        /\ IF mount_dir = <<>> /\ ~inf.ok
           THEN /\ Finish(1)
                /\ log' = <<>>
                /\ UNCHANGED cfg
           ELSE /\ Finish(0)
                /\ log' = <<Event("write_config", NoTarget, "ok")>>
                /\ cfg' = [c EXCEPT !.shortcuts = PutShortcut(@, name, new)]
        /\ Locals(NoTarget, <<>>, <<>>, <<>>, NoTarget)
        /\ UNCHANGED <<dirs, links, file, editors, procs, mounts, findmnt_ok, exists_raises, stale>>

\* lines 606-614 on a file whose entries carry the optional attributes
DeleteShortcutWith(name) ==
    LET c == LoadConfig(cfg)
    IN  /\ Begin("delete_shortcut", [shortcut |-> name, remote |-> <<>>,
                                      mount_dir |-> <<>>, flags |-> NoFlags])
        /\ Finish(0)
        /\ IF name \notin DOMAIN c.shortcuts
           THEN log' = <<>> /\ UNCHANGED cfg
           ELSE /\ log' = <<Event("write_config", NoTarget, "ok")>>
                /\ cfg' = [c EXCEPT !.shortcuts = DelShortcut(@, name)]
        /\ Locals(NoTarget, <<>>, <<>>, <<>>, NoTarget)
        /\ UNCHANGED <<dirs, links, file, editors, procs, mounts, findmnt_ok, exists_raises, stale>>

ShortcutsInit ==
    /\ dirs = {RootDir, <<Mnt>>}
    /\ links = {}
    /\ mounts = {}
    /\ stale = {}
    /\ findmnt_ok = TRUE
    /\ exists_raises = FALSE
    /\ cfg = DefaultConfig
    /\ pc = "idle"
    /\ cmd = "none"
    /\ args = [shortcut |-> <<>>, remote |-> <<>>, mount_dir |-> <<>>, flags |-> NoFlags]
    /\ target = NoTarget
    /\ remote_final = <<>>
    /\ mount_name = <<>>
    /\ queue = <<>>
    /\ cur = NoTarget
    /\ exit = -1
    /\ log = <<>>
    /\ pre = Snapshot
    /\ file = NoFile
    /\ editors = <<>>
    /\ procs = <<>>

ShortcutsNext ==
    \/ \E n \in ShortcutNames2, r \in {RemoteIp, RemoteB}, fl \in FlagSets :
          CreateShortcutWith(n, r, <<>>, fl)
    \/ \E n \in ShortcutNames2 : DeleteShortcutWith(n)

SpecShortcuts == ShortcutsInit /\ [][ShortcutsNext]_vars

(***************************************************************************)
(* The standalone script sshfsman.py: mount, unmount, status               *)
(***************************************************************************)
\* sshfsman.py lines 103-121 on Linux: a line of /proc/mounts holds the mount
\* point as it was written by the caller (no resolve()); the mount table of the
\* model holds fuse.sshfs mounts only
is_mounted(mountpoint) == mountpoint \in mounts

IsMountedEvent(mp, ms) == Event("is_mounted", mp, IF mp \in ms THEN "true" ELSE "false")

\* mount_root / args.id for the roots and identifiers of the model
StandalonePaths == {Chain(k) : k \in 1..MaxNest} \cup {<<Mnt, Lnk>>, <<Etc>>}

\* sshfsman.py lines 276-280: status
StandaloneStatus(mp) ==
    /\ Begin("standalone_status", [NoArgs EXCEPT !.path = mp])
    /\ log' = <<IsMountedEvent(mp, mounts)>>
    /\ Finish(0)
    /\ Locals(mp, <<>>, <<>>, <<>>, NoTarget)
    /\ UNCHANGED <<dirs, links, file, editors, procs, mounts, findmnt_ok, exists_raises, stale, cfg>>

\* sshfsman.py lines 167-186: do_mount; die() exits 2 unless told otherwise, the
\* CalledProcessError of run(check=True) ends the script with 1, and so does the
\* error of mkdir(exist_ok=True) on a mount point whose sshfs process is gone
StandaloneMount(mp) ==
    LET made == dirs \cup WithParents(Resolve(mp))
    IN  /\ Begin("standalone_mount", [NoArgs EXCEPT !.path = mp])
        /\ Locals(mp, RemoteIp, <<>>, <<>>, NoTarget)
        /\ dirs' = IF StatFails(mounts, stale, mp) THEN dirs ELSE made
        /\ IF StatFails(mounts, stale, mp)
           THEN /\ log' = <<Event("mkdir", mp, "oserror")>>
                /\ Finish(1)
                /\ UNCHANGED mounts
           ELSE IF is_mounted(mp)
           THEN /\ log' = <<Event("mkdir", mp, "ok"), IsMountedEvent(mp, mounts)>>
                /\ Finish(2)
                /\ UNCHANGED mounts
           ELSE \E o \in {"mounted", "nothing", "failed"} :
                  /\ mounts' = IF o = "mounted" THEN mounts \cup {Resolve(mp)} ELSE mounts
                  /\ IF o = "failed"
                     THEN /\ log' = <<Event("mkdir", mp, "ok"), IsMountedEvent(mp, mounts),
                                      Event("sshfs", mp, "nonzero")>>
                          /\ Finish(1)
                     ELSE /\ log' = <<Event("mkdir", mp, "ok"), IsMountedEvent(mp, mounts),
                                      Event("sshfs", mp, "zero"), IsMountedEvent(mp, mounts')>>
                          /\ Finish(IF mp \in mounts' THEN 0 ELSE 1)
        /\ UNCHANGED <<links, file, editors, procs, findmnt_ok, exists_raises, stale, cfg>>

\* sshfsman.py lines 189-202: do_unmount
StandaloneUnmount(mp) ==
    LET exists == ExistsIn(dirs, mounts, stale, mp)
    IN  /\ Begin("standalone_unmount", [NoArgs EXCEPT !.path = mp])
        /\ Locals(mp, <<>>, <<>>, <<>>, NoTarget)
        /\ IF exists # "true"
           THEN /\ log' = <<Event("exists", mp, exists)>>
                /\ Finish(IF exists = "raise" THEN 1 ELSE 2)
                /\ UNCHANGED <<mounts, stale>>
           ELSE IF ~is_mounted(mp)
           THEN /\ log' = <<Event("exists", mp, exists), IsMountedEvent(mp, mounts)>>
                /\ Finish(2)
                /\ UNCHANGED <<mounts, stale>>
           ELSE \E o \in UmountOutcomes(Resolve(mp)) :
                  /\ mounts' = IF o = "unmounted" THEN mounts \ {Resolve(mp)} ELSE mounts
                  /\ stale' = IF o = "unmounted" THEN stale \ {Resolve(mp)} ELSE stale
                  /\ IF o = "failed"
                     THEN /\ log' = <<Event("exists", mp, exists), IsMountedEvent(mp, mounts),
                                      Event("fusermount", mp, "nonzero")>>
                          /\ Finish(1)
                     ELSE /\ log' = <<Event("exists", mp, exists), IsMountedEvent(mp, mounts),
                                      Event("fusermount", mp, "zero"), IsMountedEvent(mp, mounts')>>
                          /\ Finish(IF mp \in mounts' THEN 1 ELSE 0)
        /\ UNCHANGED <<dirs, links, file, editors, procs, findmnt_ok, exists_raises, cfg>>

StandaloneInit ==
    /\ \E k \in 0..MaxNest : dirs = {RootDir, <<Etc>>} \cup {Chain(j) : j \in 0..k}
    /\ links \in SUBSET {<<Mnt, Lnk>>}
    /\ mounts \in SUBSET ({<<Etc>>, Chain(1)} \cap dirs)
    /\ stale = {}
    /\ findmnt_ok = TRUE
    /\ exists_raises = FALSE
    /\ cfg = DefaultConfig
    /\ pc = "idle"
    /\ cmd = "none"
    /\ args = NoArgs
    /\ target = NoTarget
    /\ remote_final = <<>>
    /\ mount_name = <<>>
    /\ queue = <<>>
    /\ cur = NoTarget
    /\ exit = -1
    /\ log = <<>>
    /\ pre = Snapshot
    /\ file = NoFile
    /\ editors = <<>>
    /\ procs = <<>>

StandaloneNext ==
    \/ \E mp \in StandalonePaths : StandaloneStatus(mp)
    \/ \E mp \in StandalonePaths : StandaloneMount(mp)
    \/ \E mp \in StandalonePaths : StandaloneUnmount(mp)

SpecStandalone == StandaloneInit /\ [][StandaloneNext]_vars

(***************************************************************************)
(* The argument vector of sshfs                                            *)
(***************************************************************************)
\* one element of an argument vector: a word of the program, then caller text
Arg(word, text) == [word |-> word, text |-> text]

Word(w) == Arg(w, <<>>)

Text(s) == Arg("", s)

\* lines 418-457: sc is <<>> (None) or <<flags of the shortcut>>, a the CLI flags
_merge_saved_and_cli_mount_args(sc, a) ==
    LET saved   == sc # <<>>
        port    == IF saved /\ a.port = NoPort THEN sc[1].port ELSE a.port
        ident   == IF saved /\ a.identity = <<>> THEN sc[1].identity ELSE a.identity
        ro      == IF saved /\ ~a.readonly THEN sc[1].readonly ELSE a.readonly
        nrd     == IF saved /\ ~a.no_reconnect_defaults
                   THEN sc[1].no_reconnect_defaults ELSE a.no_reconnect_defaults
        options == IF saved /\ a.options = <<>> /\ sc[1].options # <<>>
                   THEN sc[1].options ELSE a.options
    IN  [port |-> port, identity |-> ident, readonly |-> ro, no_reconnect_defaults |-> nrd,
         options |-> _split_options(options)]

\* lines 750-751: for o in opts: cmd.extend(["-o", o])
RECURSIVE DashO(_)
DashO(opts) ==
    IF opts = <<>> THEN <<>> ELSE <<Word("-o"), Head(opts)>> \o DashO(Tail(opts))

\* the vector with -p put in front of the -o options
SshfsArgv_PortFirst(remote, mountpoint, inv) ==
    LET opts == (IF ~inv.no_reconnect_defaults
                 THEN <<Word("reconnect"), Word("ServerAliveInterval=15"),
                        Word("ServerAliveCountMax=3")>>
                 ELSE <<>>)
                \o (IF inv.readonly THEN <<Word("ro")>> ELSE <<>>)
                \o [i \in 1..Len(inv.options) |-> Text(inv.options[i])]
    IN  <<Word("sshfs"), Text(remote), Text(StrOf(mountpoint))>>
        \o (IF inv.port # NoPort THEN <<Word("-p"), Text(ToStr(inv.port))>> ELSE <<>>)
        \o DashO(opts)
        \o (IF inv.identity # <<>>
            THEN <<Word("-o"), Arg("IdentityFile=", inv.identity)>> ELSE <<>>)

\* lines 740-756: cmd = ["sshfs", remote_final, str(mountpoint)] and what is appended
SshfsArgv(remote, mountpoint, inv) ==
    LET opts == (IF ~inv.no_reconnect_defaults
                 THEN <<Word("reconnect"), Word("ServerAliveInterval=15"),
                        Word("ServerAliveCountMax=3")>>
                 ELSE <<>>)
                \o (IF inv.readonly THEN <<Word("ro")>> ELSE <<>>)
                \o [i \in 1..Len(inv.options) |-> Text(inv.options[i])]
    IN  <<Word("sshfs"), Text(remote), Text(StrOf(mountpoint))>>
        \o DashO(opts)
        \o (IF inv.port # NoPort THEN <<Word("-p"), Text(ToStr(inv.port))>> ELSE <<>>)
        \o (IF inv.identity # <<>>
            THEN <<Word("-o"), Arg("IdentityFile=", inv.identity)>> ELSE <<>>)

Port2222 == 2222

OptC == <<"c">>

OptSpaced == <<" ", "d", " ", ",", ",", "e">>

\* -p, -i, -o, --readonly, --no-reconnect-defaults on the command line of mount
CliFlags ==
    {[port |-> p, identity |-> i, options |-> o, readonly |-> r, no_reconnect_defaults |-> n] :
        p \in {NoPort, Port2222}, i \in {<<>>, KeyFile},
        o \in {<<>>, <<OptAB>>, <<OptC, OptSpaced>>}, r \in BOOLEAN, n \in BOOLEAN}

\* the shortcut named by --shortcut, if any, as _read_config returned it
SavedFlags ==
    {<<>>} \cup {<<LoadShortcut(ShortcutWith(RemoteIp, A, fl))>> : fl \in FlagSets}

ArgvInit ==
    /\ dirs = {RootDir, <<Mnt>>}
    /\ links = {}
    /\ mounts = {}
    /\ stale = {}
    /\ findmnt_ok = TRUE
    /\ exists_raises = FALSE
    /\ cfg = DefaultConfig
    /\ pc = "idle"
    /\ cmd = "none"
    /\ args \in {[sc |-> s, flags |-> f] : s \in SavedFlags, f \in CliFlags}
    /\ target = <<Mnt, A>>
    /\ remote_final = RemoteIp
    /\ mount_name = A
    /\ queue = <<>>
    /\ cur = NoTarget
    /\ exit = -1
    /\ log = <<>>
    /\ pre = Snapshot
    /\ file = NoFile
    /\ editors = <<>>
    /\ procs = <<>>

\* lines 710 and 740-756: the merge, then the vector handed to _run_checked
ArgvBuild ==
    /\ pc = "idle"
    /\ log' = SshfsArgv(remote_final, target, _merge_saved_and_cli_mount_args(args.sc, args.flags))
    /\ pc' = "built"
    /\ UNCHANGED <<dirs, links, file, editors, procs, mounts, stale, findmnt_ok, exists_raises, cfg,
                   cmd, args, target, remote_final, mount_name, queue, cur, exit, pre>>

ArgvNext == ArgvBuild

SpecArgv == ArgvInit /\ [][ArgvNext]_vars

(***************************************************************************)
(* status, list-mounts, list-shortcuts, debug-config                       *)
(***************************************************************************)
\* sorted(cfg.shortcuts.keys())
RECURSIVE SortedNames(_)
SortedNames(S) ==
    IF S = {} THEN <<>>
    ELSE LET m == CHOOSE x \in S : \A y \in S \ {x} : StrLess(x, y)
         IN  <<m>> \o SortedNames(S \ {m})

\* the lines of findmnt -rn -t fuse.sshfs, kept in one fixed order
RECURSIVE TableOrder(_)
TableOrder(S) ==
    IF S = {} THEN <<>>
    ELSE LET m == CHOOSE x \in S : \A y \in S \ {x} : KeyLess(x, y)
         IN  <<m>> \o TableOrder(S \ {m})

\* "mounted" if mounted else "not mounted"
Printed(t, r) == Event("print", t, IF r = "true" THEN "mounted" ELSE "not mounted")

\* is_sshfs_mounted(target) answered from what an earlier invocation saw
StatusQuery_Cached(t) == is_sshfs_mounted_in(pre, t)

\* lines 632 and 638: mounted = is_sshfs_mounted(target)
StatusQuery(t) == is_sshfs_mounted(t)

\* lines 641-644: one row per shortcut, by name; an exception ends the loop
RECURSIVE StatusRows(_)
StatusRows(names) ==
    IF names = <<>> THEN <<>>
    ELSE LET t == _resolve_mountpoint_from_shortcut(Head(names)).path
             r == StatusQuery(t)
         IN  IF r = "raise" THEN <<Event("oracle", t, r)>>
             ELSE <<Event("oracle", t, r), Printed(t, r)>> \o StatusRows(Tail(names))

\* lines 625-660
cmd_status(a) ==
    LET mr  == MountRootResolved
        p   == Resolve(a.path)
        sc  == _resolve_mountpoint_from_shortcut(a.shortcut)
        all == StatusRows(SortedNames(DOMAIN cfg.shortcuts))
    IN  /\ Begin("status", a)
        /\ IF a.path # NoTarget
           THEN /\ Locals(p, <<>>, <<>>, <<>>, NoTarget)
                /\ IF ~_ensure_under_mount_root(mr, p)
                   THEN log' = <<Event("ensure", p, "raise")>> /\ Finish(1)
                   ELSE IF StatusQuery(p) = "raise"
                   THEN /\ log' = <<Event("ensure", p, "ok"), Event("oracle", p, "raise")>>
                        /\ Finish(1)
                   ELSE /\ log' = <<Event("ensure", p, "ok"), Event("oracle", p, StatusQuery(p)),
                                    Printed(p, StatusQuery(p))>>
                        /\ Finish(0)
           ELSE IF a.shortcut # <<>>
           THEN IF ~sc.ok
                THEN /\ Locals(NoTarget, <<>>, <<>>, <<>>, NoTarget)
                     /\ log' = <<>>
                     /\ Finish(1)
                ELSE /\ Locals(sc.path, <<>>, <<>>, <<>>, NoTarget)
                     /\ IF StatusQuery(sc.path) = "raise"
                        THEN log' = <<Event("oracle", sc.path, "raise")>> /\ Finish(1)
                        ELSE /\ log' = <<Event("oracle", sc.path, StatusQuery(sc.path)),
                                         Printed(sc.path, StatusQuery(sc.path))>>
                             /\ Finish(0)
           ELSE /\ Locals(NoTarget, <<>>, <<>>, <<>>, NoTarget)
                /\ log' = all
                /\ Finish(IF all # <<>> /\ all[Len(all)].res = "raise" THEN 1 ELSE 0)
        /\ UNCHANGED <<dirs, links, file, editors, procs, mounts, findmnt_ok, exists_raises, stale, cfg>>

\* the rows printed for the listed mounts
Rows(ts) == [i \in 1..Len(ts) |-> Event("row", ts[i], "listed")]

\* lines 500-527
cmd_list_mounts(all) ==
    LET mr   == MountRootResolved
        rows == {t \in {Resolve(m) : m \in _find_sshfs_mounts_system} :
                    all \/ RelativeTo(t, mr)}
    IN  /\ Begin("list_mounts", [NoArgs EXCEPT !.all = all])
        /\ Locals(NoTarget, <<>>, <<>>, <<>>, NoTarget)
        /\ IF findmnt_ok
           THEN log' = Rows(TableOrder(rows)) /\ Finish(0)
           ELSE log' = <<Event("findmnt", NoTarget, "raise")>> /\ Finish(1)
        /\ UNCHANGED <<dirs, links, file, editors, procs, mounts, findmnt_ok, exists_raises, stale, cfg>>

\* lines 530-574
cmd_list_shortcuts ==
    LET names == SortedNames(DOMAIN cfg.shortcuts)
    IN  /\ Begin("list_shortcuts", NoArgs)
        /\ Locals(NoTarget, <<>>, <<>>, <<>>, NoTarget)
        /\ log' = [i \in 1..Len(names) |-> Event("shortcut", <<names[i]>>, "listed")]
        /\ Finish(0)
        /\ UNCHANGED <<dirs, links, file, editors, procs, mounts, findmnt_ok, exists_raises, stale, cfg>>

\* lines 464-497: the configuration, then the mounts under the mount root
cmd_debug_config ==
    LET mr    == MountRootResolved
        names == SortedNames(DOMAIN cfg.shortcuts)
        rows  == {t \in _find_sshfs_mounts_system : RelativeTo(Resolve(t), mr)}
        shown == [i \in 1..Len(names) |-> Event("shortcut", <<names[i]>>, "listed")]
    IN  /\ Begin("debug_config", NoArgs)
        /\ Locals(NoTarget, <<>>, <<>>, <<>>, NoTarget)
        /\ IF findmnt_ok
           THEN log' = shown \o Rows(TableOrder(rows)) /\ Finish(0)
           ELSE log' = Append(shown, Event("findmnt", NoTarget, "raise")) /\ Finish(1)
        /\ UNCHANGED <<dirs, links, file, editors, procs, mounts, findmnt_ok, exists_raises, stale, cfg>>

StatusArgs ==
    {NoArgs} \cup {[NoArgs EXCEPT !.path = p] : p \in PathExprs}
             \cup {[NoArgs EXCEPT !.shortcut = s] : s \in ShortcutNames}

ReadOnlyInit ==
    /\ \E k \in 0..MaxNest : dirs = {RootDir, <<Etc>>} \cup {Chain(j) : j \in 0..k}
    /\ links \in SUBSET {<<Mnt, Lnk>>}
    /\ mounts \in SUBSET ({<<Etc>>, Chain(1)} \cap dirs)
    /\ stale = {}
    /\ findmnt_ok \in BOOLEAN
    /\ exists_raises \in BOOLEAN
    /\ cfg \in {DefaultConfig,
                [DefaultConfig EXCEPT !.shortcuts = PutShortcut(@, <<"s">>, Shortcut(RemoteIp, A))]}
    /\ pc = "idle"
    /\ cmd = "none"
    /\ args = NoArgs
    /\ target = NoTarget
    /\ remote_final = <<>>
    /\ mount_name = <<>>
    /\ queue = <<>>
    /\ cur = NoTarget
    /\ exit = -1
    /\ log = <<>>
    /\ pre = Snapshot
    /\ file = NoFile
    /\ editors = <<>>
    /\ procs = <<>>

\* the read-only commands, between them the sshfs process of a mount may die and
\* the standalone script may mount and unmount
ReadOnlyNext ==
    \/ \E a \in StatusArgs : cmd_status(a)
    \/ \E all \in BOOLEAN : cmd_list_mounts(all)
    \/ cmd_list_shortcuts
    \/ cmd_debug_config
    \/ TransportLost
    \/ \E mp \in {Chain(1), <<Etc>>} : StandaloneMount(mp)
    \/ \E mp \in {Chain(1), <<Etc>>} : StandaloneUnmount(mp)

SpecReadOnly == ReadOnlyInit /\ [][ReadOnlyNext]_vars

(***************************************************************************)
(* Two invocations, separate processes, mount and unmount one path         *)
(***************************************************************************)
Procs == {1, 2}

\* the mount point both invocations are aimed at: mount_root / a
P == Chain(1)

ProcStart == [cmd |-> "none", pc |-> "start", cur |-> NoTarget, exit |-> -1, log |-> <<>>,
              over |-> FALSE]

RaceVars == <<links, stale, findmnt_ok, exists_raises, cfg, pc, cmd, args, target,
              remote_final, mount_name, queue, cur, exit, log, pre, file, editors>>

\* process i took a step to position q and logged events es
ProcStep(i, q, es) ==
    procs' = [procs EXCEPT ![i].pc = q, ![i].log = @ \o es]

\* main() of process i returned code
ProcDone(i, code, es) ==
    procs' = [procs EXCEPT ![i].pc = "done", ![i].exit = code, ![i].log = @ \o es]

\* cmd_mount lines 676-708: the mount root is created, the target resolved and checked
RaceMountBegin(i) ==
    /\ procs[i].pc = "start"
    /\ dirs' = dirs \cup WithParents(MountRootResolved)
    /\ procs' = [procs EXCEPT ![i].cmd = "mount", ![i].pc = "m_precheck",
                              ![i].log = <<Event("ensure", P, "ok")>>]
    /\ UNCHANGED <<mounts, RaceVars>>

\* lines 733-736
RaceMountPrecheck(i) ==
    LET r == is_sshfs_mounted(P)
    IN  /\ procs[i].pc = "m_precheck"
        /\ IF r = "true" THEN ProcDone(i, 0, <<Event("oracle", P, r)>>)
           ELSE IF r = "raise" THEN ProcDone(i, 1, <<Event("oracle", P, r)>>)
           ELSE ProcStep(i, "m_mkdir", <<Event("oracle", P, r)>>)
        /\ UNCHANGED <<dirs, mounts, RaceVars>>

\* line 738
RaceMountMkdir(i) ==
    /\ procs[i].pc = "m_mkdir"
    /\ dirs' = dirs \cup WithParents(P)
    /\ ProcStep(i, "m_helper", <<Event("mkdir", P, "ok")>>)
    /\ UNCHANGED <<mounts, RaceVars>>

\* what sshfs can do now: without the directory it fails; on a path that is already
\* a mount it mounts on top of it or fails; else as SshfsOutcomes
SshfsOutcomesAt(t) ==
    IF t \notin dirs THEN {"failed"}
    ELSE IF t \in mounts THEN {"mounted", "failed"}
    ELSE {"mounted", "nothing", "failed"}

\* line 758: _run_checked(["sshfs", remote_final, mountpoint, ...])
RaceMountHelper(i) ==
    /\ procs[i].pc = "m_helper"
    /\ \E o \in SshfsOutcomesAt(P) :
        /\ mounts' = IF o = "mounted" THEN mounts \cup {P} ELSE mounts
        /\ IF o = "failed"
           THEN procs' = [procs EXCEPT ![i].pc = "done", ![i].exit = 1,
                                       ![i].over = P \in mounts,
                                       ![i].log = Append(@, Event("sshfs", P, "nonzero"))]
           ELSE procs' = [procs EXCEPT ![i].pc = "m_verify", ![i].over = P \in mounts,
                                       ![i].log = Append(@, Event("sshfs", P, "zero"))]
    /\ UNCHANGED <<dirs, RaceVars>>

\* lines 760-763 trusting the exit status of sshfs
RaceMountVerify_Trusting(i) ==
    /\ procs[i].pc = "m_verify"
    /\ ProcDone(i, 0, <<Event("oracle", P, is_sshfs_mounted(P))>>)
    /\ UNCHANGED <<dirs, mounts, RaceVars>>

\* lines 760-763
RaceMountVerify(i) ==
    LET r == is_sshfs_mounted(P)
    IN  /\ procs[i].pc = "m_verify"
        /\ ProcDone(i, IF r = "true" THEN 0 ELSE 1, <<Event("oracle", P, r)>>)
        /\ UNCHANGED <<dirs, mounts, RaceVars>>

\* cmd_unmount lines 790-796 and _unmount_one lines 767-771
RaceUnmountBegin(i) ==
    LET r == is_sshfs_mounted(P)
    IN  /\ procs[i].pc = "start"
        /\ IF r = "true"
           THEN procs' = [procs EXCEPT ![i].cmd = "unmount", ![i].pc = "u_helper",
                              ![i].log = <<Event("ensure", P, "ok"), Event("oracle", P, r)>>]
           ELSE procs' = [procs EXCEPT ![i].cmd = "unmount", ![i].pc = "done",
                              ![i].exit = IF r = "raise" THEN 1 ELSE 0,
                              ![i].log = <<Event("ensure", P, "ok"), Event("oracle", P, r)>>]
        /\ UNCHANGED <<dirs, mounts, RaceVars>>

\* lines 773-782
RaceUnmountHelper(i) ==
    /\ procs[i].pc = "u_helper"
    /\ \E use_fuse \in BOOLEAN, o \in UmountOutcomes(P) :
        LET tool == IF use_fuse THEN "fusermount3" ELSE "umount"
        IN  /\ mounts' = IF o = "unmounted" THEN mounts \ {P} ELSE mounts
            /\ IF o = "failed"
               THEN ProcDone(i, 1, <<Probe(P, use_fuse), Event(tool, P, "nonzero")>>)
               ELSE ProcStep(i, "u_verify", <<Probe(P, use_fuse), Event(tool, P, "zero")>>)
    /\ UNCHANGED <<dirs, RaceVars>>

\* lines 784-787: the re-query, then _safe_prune_empty_dirs(mount_root, target)
RaceUnmountVerify(i) ==
    LET r == is_sshfs_mounted(P)
    IN  /\ procs[i].pc = "u_verify"
        /\ IF r # "false"
           THEN ProcDone(i, 1, <<Event("oracle", P, r)>>)
           ELSE procs' = [procs EXCEPT ![i].pc = "p_check", ![i].cur = P,
                                       ![i].log = Append(@, Event("oracle", P, r))]
        /\ UNCHANGED <<dirs, mounts, RaceVars>>

\* lines 346-353 of _safe_prune_empty_dirs: the tests before the removal
RacePruneCheck(i) ==
    LET c == procs[i].cur
        r == is_sshfs_mounted(c)
    IN  /\ procs[i].pc = "p_check"
        /\ IF c = MountRootResolved THEN ProcDone(i, 0, <<>>)
           ELSE IF ~_ensure_under_mount_root(MountRootResolved, c)
           THEN ProcDone(i, 1, <<Event("ensure", c, "raise")>>)
           ELSE IF r = "true" THEN ProcDone(i, 0, <<Event("oracle", c, r)>>)
           ELSE IF r = "raise" THEN ProcDone(i, 1, <<Event("oracle", c, r)>>)
           ELSE ProcStep(i, "p_rmdir", <<Event("oracle", c, r)>>)
        /\ UNCHANGED <<dirs, mounts, RaceVars>>

\* lines 355-363: cur.rmdir(), then the parent
RacePruneRmdir(i) ==
    LET c == procs[i].cur
    IN  /\ procs[i].pc = "p_rmdir"
        /\ IF RmdirOk(c)
           THEN /\ dirs' = dirs \ {c}
                /\ IF Parent(c) = c
                   THEN ProcDone(i, 0, <<Event("rmdir", c, "ok")>>)
                   ELSE procs' = [procs EXCEPT ![i].pc = "p_check", ![i].cur = Parent(c),
                                               ![i].log = Append(@, Event("rmdir", c, "ok"))]
           ELSE /\ ProcDone(i, 0, <<Event("rmdir", c, "oserror")>>)
                /\ UNCHANGED dirs
        /\ UNCHANGED <<mounts, RaceVars>>

RaceInit ==
    /\ dirs \in {{RootDir, <<Mnt>>}, {RootDir, <<Mnt>>, P}}
    /\ links = {}
    /\ mounts \in SUBSET ({P} \cap dirs)
    /\ stale = {}
    /\ findmnt_ok = TRUE
    /\ exists_raises = FALSE
    /\ cfg = DefaultConfig
    /\ pc = "idle"
    /\ cmd = "none"
    /\ args = NoArgs
    /\ target = NoTarget
    /\ remote_final = <<>>
    /\ mount_name = <<>>
    /\ queue = <<>>
    /\ cur = NoTarget
    /\ exit = -1
    /\ log = <<>>
    /\ pre = Snapshot
    /\ file = NoFile
    /\ editors = <<>>
    /\ procs = [i \in Procs |-> ProcStart]

RaceNext ==
    \E i \in Procs :
        \/ RaceMountBegin(i)
        \/ RaceMountPrecheck(i)
        \/ RaceMountMkdir(i)
        \/ RaceMountHelper(i)
        \/ RaceMountVerify(i)
        \/ RaceUnmountBegin(i)
        \/ RaceUnmountHelper(i)
        \/ RaceUnmountVerify(i)
        \/ RacePruneCheck(i)
        \/ RacePruneRmdir(i)

SpecRace == RaceInit /\ [][RaceNext]_vars

(***************************************************************************)
(* mount: the directory the target is made of                              *)
(***************************************************************************)
\* values of --mount-dir: absent, a plain name, the two link names, ".", "..",
\* "../e", "/", "a/a"
MountDirValues ==
    {<<>>, A, Lnk, LnkRoot, <<".">>, DotDot, <<".", ".", "/", "e">>, <<"/">>,
     <<"a", "/", "a">>}

\* mount --remote R [--mount-dir D] [--create-shortcut s],
\* mount --shortcut s [--id 7] [--mount-dir D]
MountTargetArgs ==
    {[NoArgs EXCEPT !.remote = RemoteIp, !.mount_dir = d, !.create_shortcut = c] :
        d \in MountDirValues, c \in {<<>>} \cup ShortcutNames}
    \cup {[NoArgs EXCEPT !.shortcut = s, !.id = i, !.mount_dir = d] :
            s \in ShortcutNames, i \in {<<>>, <<"7">>}, d \in MountDirValues}

\* the file system before the command: the mount root may be missing, /m/l
\* and /m/r may be symbolic links, /m/a may carry a mount; the configuration
\* has no shortcut or shortcut s with a saved mount_dir
MountTargetInit ==
    /\ \E k \in -1..MaxNest : dirs = {RootDir, <<Etc>>} \cup {Chain(j) : j \in 0..k}
    /\ links \in SUBSET ({<<Mnt, Lnk>>, <<Mnt, LnkRoot>>} \cap {Append(d, c) : d \in dirs, c \in {Lnk, LnkRoot}})
    /\ mounts \in SUBSET ({Chain(1)} \cap dirs)
    /\ stale = {}
    /\ findmnt_ok \in BOOLEAN
    /\ exists_raises = FALSE
    /\ \E sh \in {NoShortcuts} \cup {PutShortcut(NoShortcuts, <<"s">>, Shortcut(RemoteIp, d)) :
                                        d \in {<<>>, A, LnkRoot}} :
        cfg = [mount_root |-> <<Mnt>>, default_subnet |-> <<>>, shortcuts |-> sh]
    /\ pc = "idle"
    /\ cmd = "none"
    /\ args = NoArgs
    /\ target = NoTarget
    /\ remote_final = <<>>
    /\ mount_name = <<>>
    /\ queue = <<>>
    /\ cur = NoTarget
    /\ exit = -1
    /\ log = <<>>
    /\ pre = Snapshot
    /\ file = NoFile
    /\ editors = <<>>
    /\ procs = <<>>

\* one invocation of cmd_mount from each of these states
MountTargetNext ==
    \/ pc = "idle" /\ \E a \in MountTargetArgs : MountBegin(a)
    \/ MountEnsure
    \/ MountSaveShortcut
    \/ MountPrecheck
    \/ MountMkdir
    \/ MountHelper
    \/ MountVerify

SpecMountTarget == MountTargetInit /\ [][MountTargetNext]_vars

(***************************************************************************)
(* Properties                                                              *)
(***************************************************************************)
UmountOps == {"fusermount3", "umount"}

\* the invocation has run one of the helpers `ops`
Ran(ops) == \E i \in 1..Len(log) : log[i].op \in ops

\* what findmnt -T answers for a path it reports as fuse.sshfs
SshfsReport == [rc |-> 0, out |-> FSTYPE_SSHFS]

\* the invocation resolved a target that lies under the mount root
HasTargetUnderRoot ==
    target # NoTarget /\ _ensure_under_mount_root(pre.cfg.mount_root, target)

C2_IdempotentUnmount ==
    (cmd = "unmount" /\ HasTargetUnderRoot /\ is_sshfs_mounted_in(pre, target) = "false")
        => /\ ~Ran(UmountOps)
           /\ mounts = pre.mounts
           /\ pc = "done" => exit = 0

\* an unmount of an existing, unmounted directory under the root has returned
C2_Witness ==
    /\ cmd = "unmount" /\ pc = "done" /\ exit = 0
    /\ HasTargetUnderRoot /\ findmnt_ok
    /\ target \in pre.dirs
    /\ is_sshfs_mounted_in(pre, target) = "false"
    /\ pre.mounts # {}

\* C3: cmd_mount exits 0 only if a query of this invocation reported the mount
\* point as fuse.sshfs (and findmnt does report it so); after sshfs exits non-zero,
\* or exits 0 with the re-query not reporting the mount, the exit is non-zero.
C3_MountVerified ==
    (cmd = "mount" /\ pc = "done") =>
        /\ exit = 0 =>
            /\ \E i \in 1..Len(log) : log[i] = Event("oracle", target, "true")
            /\ findmnt_ok /\ FindmntIn(dirs, mounts, stale, target) = SshfsReport
        /\ (\E i \in 1..Len(log) : log[i] = Event("sshfs", target, "nonzero")) => exit = 1
        /\ (\E i \in 1..Len(log) - 1 :
                /\ log[i] = Event("sshfs", target, "zero")
                /\ log[i + 1].op = "oracle" /\ log[i + 1].res # "true") => exit = 1

\* sshfs exited 0, the re-query did not find the mount, the command failed
C3_Witness ==
    /\ cmd = "mount" /\ pc = "done" /\ exit = 1
    /\ Len(log) >= 2
    /\ log[Len(log) - 1] = Event("sshfs", target, "zero")
    /\ log[Len(log)] = Event("oracle", target, "false")

\* the unmount helper exited 0 on t and the re-query that followed reported t as
\* not mounted, all before position i of the log
UnmountConfirmed(t, i) ==
    \E j \in 1..Len(log) :
        /\ j + 1 < i
        /\ log[j].op \in UmountOps /\ log[j].path = t /\ log[j].res = "zero"
        /\ log[j + 1] = Event("oracle", t, "false")

\* the unmount of a target failed at position j of the log
UnmountFailedAt(j) ==
    /\ log[j].op \in UmountOps
    /\ \/ log[j].res = "nonzero"
       \/ j < Len(log) /\ log[j + 1].op = "oracle" /\ log[j + 1].res # "false"

\* the command runs _unmount_one
ViaUnmountOne == cmd = "unmount" \/ (cmd = "unmount_all" /\ ~args.all)

\* C4: in _unmount_one the pruner runs, and a directory is removed, only after
\* the helper exited 0 on the target and the re-query reported it not mounted;
\* after a failed helper or a target still mounted nothing more is removed and
\* the command exits non-zero, and a failed unmount has removed no directory.
C4_PruneGated ==
    ViaUnmountOne =>
        /\ pc = "prune" => UnmountConfirmed(target, Len(log) + 1)
        /\ \A i \in 1..Len(log) :
              log[i].op = "rmdir" =>
                  \E t \in CPaths : UnmountConfirmed(t, i) /\ RelativeTo(t, log[i].path)
        /\ \A j \in 1..Len(log) :
              UnmountFailedAt(j) =>
                  /\ pc = "done" /\ exit = 1
                  /\ \A i \in 1..Len(log) : i > j => log[i].op # "rmdir"
        /\ (cmd = "unmount" /\ pc = "done" /\ exit = 1) => dirs = pre.dirs

\* an unmount was confirmed and the pruner has removed the mount point
C4_Witness ==
    /\ cmd = "unmount" /\ pc = "done" /\ exit = 0
    /\ UnmountConfirmed(target, Len(log))
    /\ log[Len(log)].op = "rmdir"
    /\ target \notin dirs

\* position i of the log is preceded by a query that reported t as fuse.sshfs
ConfirmedBefore(t, i) ==
    \E j \in 1..Len(log) : j < i /\ log[j] = Event("oracle", t, "true")

\* C5: cmd_mount run with --create-shortcut rewrites the configuration only after
\* a query of that invocation reported the mount point as fuse.sshfs; a mount
\* that ends without that confirmation leaves the configuration as it was.
C5_PersistAfterConfirmation ==
    cmd = "mount" =>
        /\ \A i \in 1..Len(log) :
              log[i].op = "write_config" => ConfirmedBefore(target, i)
        /\ (pc = "done" /\ ~ConfirmedBefore(target, Len(log) + 1)) => cfg = pre.cfg

\* the steps that touch the file system, the mount table or the configuration
MutatingOps == {"mkdir", "rmdir", "sshfs", "write_config"} \cup UmountOps

\* position i of the log is preceded by a successful _ensure_under_mount_root(p)
EnsuredBefore(p, i) ==
    \E j \in 1..Len(log) : j < i /\ log[j] = Event("ensure", p, "ok")

\* _ensure_under_mount_root raised in this invocation
EnsureRaised == \E i \in 1..Len(log) : log[i].op = "ensure" /\ log[i].res = "raise"

\* a failed check ends the command with exit 1 and nothing changed
NothingMutated ==
    /\ dirs = pre.dirs /\ mounts = pre.mounts /\ cfg = pre.cfg
    /\ pc = "done" /\ exit = 1

\* C6, as claimed: in mount, unmount, unmount-all and prune every mutating step on
\* a path comes after a successful _ensure_under_mount_root on that path, and a
\* failed check ends the command with nothing mutated.
C6_EnsureBeforeEveryMutation ==
    cmd \in {"mount", "unmount", "unmount_all", "prune"} =>
        /\ \A i \in 1..Len(log) :
              log[i].op \in MutatingOps => EnsuredBefore(log[i].path, i)
        /\ EnsureRaised => NothingMutated

\* C6, amended: the same, except that unmount-all --all runs the unmount helper on
\* its targets without the check; its directory removals stay behind the check.
C6_EnsureBeforeMutation ==
    cmd \in {"mount", "unmount", "unmount_all", "prune"} =>
        /\ \A i \in 1..Len(log) :
              (/\ log[i].op \in MutatingOps
               /\ ~(cmd = "unmount_all" /\ args.all /\ log[i].op \in UmountOps))
                  => EnsuredBefore(log[i].path, i)
        /\ EnsureRaised => NothingMutated

\* a mount whose mount point resolves, through the symbolic link, to a mounted
\* directory outside the mount root has been refused
C6_Witness ==
    /\ cmd = "mount" /\ pc = "done" /\ exit = 1
    /\ log[Len(log)] = Event("ensure", target, "raise")
    /\ ~RelativeTo(target, MountRootResolved)
    /\ target \in mounts

\* C7: a step removes a directory only if it is not the mount root, lies strictly
\* inside the mount root, is empty, is no mount point and is not reported as
\* mounted by is_sshfs_mounted.
C7_PruneBound ==
    [][\A d \in dirs \ dirs' :
          /\ d # MountRootResolved
          /\ RelativeTo(d, MountRootResolved) /\ Len(d) > Len(MountRootResolved)
          /\ IsEmptyDir(d)
          /\ d \notin mounts
          /\ is_sshfs_mounted(d) # "true"]_vars

\* a direct call from the deepest directory has pruned every empty directory up
\* to the mount root and stopped there
C7_Witness ==
    /\ cmd = "prune" /\ pc = "done" /\ exit = 0
    /\ cur = MountRootResolved /\ MountRootResolved \in dirs
    /\ Chain(MaxNest) \in pre.dirs
    /\ \A k \in 1..MaxNest : Chain(k) \notin dirs
    /\ log[Len(log)] = Event("rmdir", Chain(1), "ok")

\* p is r or a descendant of r
RECURSIVE IsUnder(_, _)
IsUnder(p, r) ==
    IF p = r THEN TRUE
    ELSE IF p = RootDir THEN FALSE
    ELSE IsUnder(Parent(p), r)

\* C8: for every mount root and every path, _ensure_under_mount_root succeeds
\* exactly when the resolved path is the resolved root or a descendant of it;
\* /m/../e is refused for root /m.
C8_PathConfinement ==
    /\ \A root \in PathExprs, p \in PathExprs :
          _ensure_under_mount_root(root, p) <=> IsUnder(Resolve(p), Resolve(root))
    /\ ~_ensure_under_mount_root(<<Mnt>>, <<Mnt, DotDot, Etc>>)

\* an unmount of /m/../e has been refused while /m/l is a symbolic link that
\* leaves the mount root
C8_Witness ==
    /\ cmd = "unmount" /\ pc = "done" /\ exit = 1
    /\ args.path = <<Mnt, DotDot, Etc>>
    /\ log = <<Event("ensure", <<Etc>>, "raise")>>
    /\ <<Mnt, Lnk>> \in links
    /\ ~_ensure_under_mount_root(cfg.mount_root, <<Mnt, Lnk>>)

\* C9: with findmnt installed, is_sshfs_mounted answers true for a path exactly
\* when findmnt reports fuse.sshfs for it, and false for any other report.
C9_OracleGroundTruth ==
    findmnt_ok =>
        \A p \in PathExprs :
            is_sshfs_mounted(p) =
                IF FindmntIn(dirs, mounts, stale, p) = SshfsReport THEN "true" ELSE "false"

PhoneScenario(mp) ==
    /\ Phone \in DOMAIN cfg.shortcuts => cfg.shortcuts[Phone].remote = RemotePhone
    /\ (cmd = "mount" /\ target # NoTarget) =>
          /\ target = mp
          /\ remote_final = RemotePhone77
          /\ \A i \in 1..Len(log) :
                log[i].op = "sshfs" =>
                    /\ log[i].path = mp
                    /\ i > 1 /\ log[i - 1] = Event("mkdir", mp, "ok")
                    /\ mp \in dirs
          /\ (findmnt_ok /\ mp \in mounts /\ Ran({"sshfs"}) /\ pc = "done") =>
                is_sshfs_mounted(mp) = "true" /\ exit = 0
    /\ (cmd = "unmount" /\ target # NoTarget) =>
          /\ target = mp
          /\ (pc = "done" /\ exit = 0 /\ mp \in pre.mounts) =>
                /\ mp \notin mounts
                /\ mp \notin dirs
                /\ <<Tmp, X>> \in dirs

\* C12, as claimed: the scenario runs on the directory /tmp/x/phone.
C12_ScenarioPhoneDir == PhoneScenario(<<Tmp, X, Phone>>)

\* C12, amended: the scenario runs on /tmp/x/sdcard, the directory named after the
\* leaf of the remote path, which create-shortcut stores as the mount_dir.
C12_ScenarioLeafDir ==
    /\ Phone \in DOMAIN cfg.shortcuts => cfg.shortcuts[Phone].mount_dir = Sdcard
    /\ PhoneScenario(<<Tmp, X, Sdcard>>)

\* the shortcut was created, mounted with override 77 and unmounted again: the
\* mount and /tmp/x/sdcard are gone, /tmp/x is left
C12_Witness ==
    /\ cmd = "unmount" /\ pc = "done" /\ exit = 0
    /\ args.shortcut = Phone
    /\ target = <<Tmp, X, Sdcard>>
    /\ target \in pre.mounts /\ target \notin mounts /\ target \notin dirs
    /\ <<Tmp, X>> \in dirs
    /\ log[Len(log)] = Event("rmdir", <<Tmp, X, Sdcard>>, "ok")

\* the target was, when the command started, what a failed or interrupted mount
\* leaves behind: an empty directory strictly under the mount root, not mounted
StaleMountPointBefore ==
    /\ target # NoTarget
    /\ target # Resolve(pre.cfg.mount_root)
    /\ IsUnder(target, Resolve(pre.cfg.mount_root))
    /\ target \in pre.dirs
    /\ pre.mounts = {} /\ pre.stale = {}
    /\ ~\E c \in pre.dirs \cup links : c # target /\ Parent(c) = target

\* C13: an unmount of a target that a mount attempt left behind as an empty,
\* unmounted directory under the mount root removes that directory and leaves
\* the mount root (findmnt being installed).
C13_StaleDirCleanup ==
    (cmd = "unmount" /\ pc = "done" /\ findmnt_ok /\ StaleMountPointBefore) =>
        /\ target \notin dirs
        /\ Resolve(pre.cfg.mount_root) \in dirs

\* C14: whatever a concurrent editor read from the configuration file was the
\* complete text written by one invocation (not empty, no bytes of another
\* text after it), and when all editors are done the file is exactly the
\* configuration the last writer held in memory.
C14_AtomicRewrite ==
    /\ \A i \in DOMAIN editors :
          editors[i].pc # "start" =>
              editors[i].seen.state = "text" /\ editors[i].seen.extra = 0
    /\ (\A i \in DOMAIN editors : editors[i].pc = "done") =>
          /\ file.state = "text" /\ file.extra = 0
          /\ file.by \in DOMAIN editors => file.cfg = editors[file.by].mem

\* C15: every shortcut of the persisted configuration has a remote that
\* _parse_remote accepts (names are unique, the shortcuts being keyed by name).
C15_StoredRemotesParse ==
    \A n \in DOMAIN cfg.shortcuts : _parse_remote(cfg.shortcuts[n].remote).ok

\* the leaf segment of the path of a remote, and its host
LeafOf(remote) == PathName(_parse_remote(remote).right)

\* the first of the candidates that is not empty
RECURSIVE FirstGiven(_)
FirstGiven(cands) ==
    IF cands = <<>> THEN <<>>
    ELSE IF Head(cands) # <<>> THEN Head(cands) ELSE FirstGiven(Tail(cands))

\* cmd_mount has derived a directory name
NameDerived == cmd = "mount" /\ pc = "m_ensure"

\* C16, as claimed: the name is the sanitised first of --mount-dir, the
\* shortcut's mount_dir and the leaf of the remote path, and the literal mount
\* when none is given, as for user@host:/ without override.
C16_DerivationLeafThenLiteral ==
    NameDerived =>
        mount_name =
            IF args.shortcut # <<>>
            THEN LET sc == pre.cfg.shortcuts[args.shortcut]
                     c  == FirstGiven(<<args.mount_dir, sc.mount_dir, LeafOf(sc.remote)>>)
                 IN  IF c = <<>> THEN MountLiteral ELSE _sanitize_mount_dir(c)
            ELSE LET c == FirstGiven(<<args.mount_dir, LeafOf(args.remote)>>)
                 IN  IF c = <<>> THEN MountLiteral ELSE _sanitize_mount_dir(c)

\* C16, amended: the name is the sanitised first of --mount-dir, the shortcut's
\* mount_dir (for a shortcut), the leaf of the remote path and the host of the
\* remote (ad hoc); the literal mount is what sanitisation makes of a name it
\* leaves nothing of; user@host:/ without override gives the host.
C16_DerivationLeafThenHost ==
    NameDerived =>
        /\ mount_name =
              IF args.shortcut # <<>>
              THEN _sanitize_mount_dir(FirstGiven(
                      <<args.mount_dir, pre.cfg.shortcuts[args.shortcut].mount_dir,
                        args.shortcut>>))
              ELSE _sanitize_mount_dir(FirstGiven(
                      <<args.mount_dir, LeafOf(args.remote),
                        HostOf(_parse_remote(args.remote).left)>>))
        /\ (args.remote = RemoteNoLeaf /\ args.mount_dir = <<>>) => mount_name = <<"h">>
        /\ (args.remote \in {RemoteDots, RemoteDash} /\ args.mount_dir = <<>>) =>
              mount_name = MountLiteral
        /\ target = Resolve(Append(pre.cfg.mount_root, mount_name))

\* mount --remote u@h:/ without --mount-dir derived the name h
C16_Witness ==
    /\ NameDerived
    /\ args.remote = RemoteNoLeaf /\ args.mount_dir = <<>>
    /\ mount_name = <<"h">>
    /\ target = <<Mnt, <<"h">>>>

\* cmd_mount has built the remote of a shortcut whose stored remote is
\* prefix host:/path
Resolved(prefix, host) ==
    /\ cmd = "mount" /\ pc = "m_ensure" /\ args.shortcut \in DOMAIN pre.cfg.shortcuts
    /\ pre.cfg.shortcuts[args.shortcut].remote = ComposeRemote(prefix, host, PathPart)

IsCleanName(n) == n # <<>> /\ \A i \in 1..Len(n) : n[i] \in AllowedChars

\* C18: _sanitize_mount_dir of every name (the empty one and those made of
\* disallowed characters included) is a non-empty name over the allowed
\* characters, and sanitising it again changes nothing; "" gives mount and
\* a//b gives a_b.
C18_SanitizeIdempotentTotal ==
    /\ pc \in {"sanitized", "reloaded"} =>
          /\ IsCleanName(mount_name)
          /\ args.mount_dir = <<>> => mount_name = MountLiteral
          /\ args.mount_dir = <<"a", "/", "/", "b">> => mount_name = <<"a", "_", "b">>
    /\ pc = "reloaded" => cfg.shortcuts[<<"s">>].mount_dir = mount_name

\* a//b was sanitised to a_b, and a_b to itself
C18_Witness ==
    /\ pc = "reloaded"
    /\ args.mount_dir = <<"a", "/", "/", "b">>
    /\ mount_name = <<"a", "_", "b">>
    /\ cfg.shortcuts[<<"s">>].mount_dir = <<"a", "_", "b">>

\* PathEscape, ToolMissing, MountFailed, UnmountFailed: a step of the invocation
\* raised or a helper exited non-zero
StepFailed ==
    \E i \in 1..Len(log) :
        \/ log[i].res \in {"raise", "nonzero"}
        \/ log[i].op = "mkdir" /\ log[i].res = "oserror"

\* MountVerificationFailed, UnmountVerificationFailed: the helper exited 0 and
\* the query after it did not confirm
VerificationFailed ==
    \E i \in 1..Len(log) - 1 :
        \/ log[i].op = "sshfs" /\ log[i].res = "zero"
              /\ log[i + 1] = Event("oracle", log[i].path, "false")
        \/ log[i].op \in UmountOps /\ log[i].res = "zero"
              /\ log[i + 1] = Event("oracle", log[i].path, "true")

\* UnknownShortcut: the command names a shortcut the configuration does not hold
UnknownShortcutNamed ==
    /\ cmd \in {"mount", "unmount", "delete_shortcut"}
    /\ args.shortcut # <<>>
    /\ args.shortcut \notin DOMAIN pre.cfg.shortcuts

\* FormatError: the command was given a remote that does not parse, or an
\* override for a shortcut whose remote does not parse
FormatErrorGiven ==
    \/ /\ cmd \in {"mount", "create_shortcut"}
       /\ args.remote # <<>>
       /\ ~_parse_remote(args.remote).ok
    \/ /\ cmd = "mount"
       /\ args.shortcut \in DOMAIN pre.cfg.shortcuts /\ args.id # <<>>
       /\ ~_parse_remote(pre.cfg.shortcuts[args.shortcut].remote).ok

\* the arguments name no target, or both a shortcut and a remote
UsageError ==
    \/ cmd = "mount" /\ (args.shortcut # <<>>) = (args.remote # <<>>)
    \/ cmd = "unmount" /\ args.shortcut = <<>> /\ args.path = NoTarget

\* ToolMissing: unmount-all lists the mounts with findmnt
ListingFailed == cmd = "unmount_all" /\ ~findmnt_ok

ErrorOccurred ==
    \/ StepFailed
    \/ VerificationFailed
    \/ ListingFailed
    \/ UnknownShortcutNamed
    \/ FormatErrorGiven
    \/ UsageError

\* C19: a command that ended exits 0 exactly when none of the error kinds
\* occurred in it (a failed rmdir of the prune pass is no error), and a helper
\* that exited non-zero is the last thing the invocation ran.
C19_ExitReflectsOutcome ==
    (pc = "done" /\ cmd # "prune") =>
        /\ exit = 0 <=> ~ErrorOccurred
        /\ \A i \in 1..Len(log) : log[i].res = "nonzero" => i = Len(log)

\* position i of the log is the query that found the target of this unmount
\* mounted, before any helper ran on it
FoundMounted(i) ==
    /\ log[i].op = "oracle" /\ log[i].res = "true"
    /\ i = 1 \/ log[i - 1].op \notin UmountOps
    /\ cmd \in {"unmount", "unmount_all"}
    /\ log[i].path = target

SuppliedEntry ==
    ShortcutWith(args.remote,
                 _sanitize_mount_dir(Or(args.mount_dir, _infer_mount_dir_from_remote(args.remote).name)),
                 [args.flags EXCEPT !.options = _split_options(@)])

\* everything of the stored configuration except the entry `name` is as it was
OthersUnchanged(name) ==
    /\ cfg.mount_root = pre.cfg.mount_root
    /\ cfg.default_subnet = pre.cfg.default_subnet
    /\ DOMAIN cfg.shortcuts \ {name} = DOMAIN pre.cfg.shortcuts \ {name}
    /\ \A n \in DOMAIN cfg.shortcuts \ {name} : cfg.shortcuts[n] = pre.cfg.shortcuts[n]

\* C21: after a successful create-shortcut NAME the stored entry NAME holds only
\* what that invocation supplied or defaulted, and after a successful
\* delete-shortcut NAME the entry is absent; in both cases every other
\* shortcut, the mount root and the default subnet are stored unchanged.
C21_EditTouchesOnlyNamedEntry ==
    (pc = "done" /\ exit = 0) =>
        /\ cmd = "create_shortcut" =>
              /\ args.shortcut \in DOMAIN cfg.shortcuts
              /\ cfg.shortcuts[args.shortcut] = SuppliedEntry
              /\ OthersUnchanged(args.shortcut)
        /\ cmd = "delete_shortcut" =>
              /\ args.shortcut \notin DOMAIN cfg.shortcuts
              /\ OthersUnchanged(args.shortcut)

\* the part of C21 about the named entry alone: it is replaced wholly, or absent
C21_NamedEntryReplaced ==
    (pc = "done" /\ exit = 0) =>
        /\ cmd = "create_shortcut" =>
              /\ args.shortcut \in DOMAIN cfg.shortcuts
              /\ cfg.shortcuts[args.shortcut] = SuppliedEntry
        /\ cmd = "delete_shortcut" => args.shortcut \notin DOMAIN cfg.shortcuts

\* the targets unmount-all selects at its start (lines 811-823)
SelectedAtStart ==
    {t \in {Resolve(m) : m \in pre.mounts} :
        args.all \/ RelativeTo(t, Resolve(pre.cfg.mount_root))}

\* the unmount helper was run on path t during this invocation
HelperRanOn(t) == \E i \in 1..Len(log) : log[i].op \in UmountOps /\ log[i].path = t

\* unmount-all without --all runs the helper only on fuse.sshfs mounts under
\* the mount root and leaves every mount outside it mounted
C22_ScopeWithoutAll ==
    (cmd = "unmount_all" /\ ~args.all) =>
        /\ \A i \in 1..Len(log) :
              log[i].op \in UmountOps =>
                  /\ log[i].path \in pre.mounts
                  /\ RelativeTo(log[i].path, Resolve(pre.cfg.mount_root))
        /\ \A m \in pre.mounts : ~RelativeTo(m, Resolve(pre.cfg.mount_root)) => m \in mounts

\* unmount-all, with or without --all, removes no directory outside the mount root
C22_NoRemovalOutsideRoot ==
    cmd = "unmount_all" =>
        \A d \in pre.dirs : ~RelativeTo(d, Resolve(pre.cfg.mount_root)) => d \in dirs

\* C22: unmount-all without --all runs the unmount helper only on fuse.sshfs
\* mounts under the mount root and leaves the mounts outside it mounted; with
\* --all it removes no directory outside the mount root; and when unmount-all
\* exits 0, no mount it selected at its start is still in the mount table.
C22_UnmountAllScope ==
    /\ C22_ScopeWithoutAll
    /\ C22_NoRemovalOutsideRoot
    /\ (cmd = "unmount_all" /\ pc = "done" /\ exit = 0) =>
          \A t \in SelectedAtStart : t \notin mounts

\* the last part of C22 for invocations that start with every sshfs process alive
C22_ExitZeroAllLiveUnmounted ==
    (cmd = "unmount_all" /\ pc = "done" /\ exit = 0 /\ pre.stale = {}) =>
        \A t \in SelectedAtStart : t \notin mounts

\* the answer a decision is claimed to have: the inspector reports fuse.sshfs
InspectorSaysSshfs(p) == FindmntIn(dirs, mounts, stale, p) = SshfsReport

\* C23: every mounted / not mounted decision of the standalone script's status
\* is the mount-table inspector's answer for that path: "mounted" exactly when
\* findmnt reports the file system type fuse.sshfs for it.
C23_SingleGroundTruth ==
    (cmd = "standalone_status" /\ pc = "done") =>
        (log[1].res = "true" <=> InspectorSaysSshfs(target))

\* the value in force: the one of the command line, else the one of the shortcut
InForce ==
    LET cli == args.flags
        sc  == IF args.sc = <<>> THEN NoFlags ELSE args.sc[1]
    IN  [port |-> IF cli.port # NoPort THEN cli.port ELSE sc.port,
         identity |-> IF cli.identity # <<>> THEN cli.identity ELSE sc.identity,
         readonly |-> cli.readonly \/ sc.readonly,
         no_reconnect_defaults |-> cli.no_reconnect_defaults \/ sc.no_reconnect_defaults,
         options |-> IF cli.options # <<>> THEN cli.options ELSE sc.options]

\* the pieces of the options between commas, in order, blank pieces left out
RECURSIVE CommaPieces(_)
CommaPieces(opts) ==
    IF opts = <<>> THEN <<>>
    ELSE SelectSeq([i \in 1..Len(Split(Head(opts), ",")) |->
                        Strip(Split(Head(opts), ",")[i], {" "})],
                   LAMBDA s : s # <<>>)
         \o CommaPieces(Tail(opts))

ReconnectDefaults ==
    <<Word("reconnect"), Word("ServerAliveInterval=15"), Word("ServerAliveCountMax=3")>>

\* positions 4, 6, ... of the vector up to position n hold -o
DashOUpTo(n) == \A k \in 4..n : (k % 2 = 0) => log[k] = Word("-o")

\* C24: the argument vector of sshfs is sshfs, the remote, the target, then as
\* -o flags reconnect, ServerAliveInterval=15, ServerAliveCountMax=3 (unless
\* no_reconnect_defaults), ro (if readonly), the caller's options in order with
\* those holding commas split, then -p PORT if a port is set, then
\* -o IdentityFile=PATH if an identity is set; with no_reconnect_defaults none
\* of the three defaults is in the vector.
C24_OptionAssemblyOrder ==
    pc = "built" =>
        LET v     == InForce
            dflt  == IF v.no_reconnect_defaults THEN <<>> ELSE ReconnectDefaults
            ro    == IF v.readonly THEN <<Word("ro")>> ELSE <<>>
            own   == CommaPieces(v.options)
            vals  == dflt \o ro \o [i \in 1..Len(own) |-> Text(own[i])]
            n     == 3 + 2 * Len(vals)
            np    == IF v.port # NoPort THEN 2 ELSE 0
            ni    == IF v.identity # <<>> THEN 2 ELSE 0
        IN  /\ Len(log) = n + np + ni
            /\ log[1] = Word("sshfs")
            /\ log[2] = Text(remote_final)
            /\ log[3] = Text(StrOf(target))
            /\ DashOUpTo(n)
            /\ \A i \in 1..Len(vals) : log[3 + 2 * i] = vals[i]
            /\ np = 2 => log[n + 1] = Word("-p") /\ log[n + 2] = Text(ToStr(v.port))
            /\ ni = 2 => /\ log[n + np + 1] = Word("-o")
                         /\ log[n + np + 2] = Arg("IdentityFile=", v.identity)
            /\ v.no_reconnect_defaults =>
                  \A k \in 1..Len(log) : log[k] \notin {ReconnectDefaults[j] : j \in 1..3}

\* a mount with the defaults, ro, two options written as one, a port and a key
C24_Witness ==
    /\ pc = "built"
    /\ args.sc = <<>>
    /\ args.flags = [port |-> Port2222, identity |-> KeyFile, options |-> <<OptAB>>,
                     readonly |-> TRUE, no_reconnect_defaults |-> FALSE]
    /\ log = <<Word("sshfs"), Text(RemoteIp), Text(<<"/", "m", "/", "a">>),
               Word("-o"), Word("reconnect"), Word("-o"), Word("ServerAliveInterval=15"),
               Word("-o"), Word("ServerAliveCountMax=3"), Word("-o"), Word("ro"),
               Word("-o"), Text(<<"a">>), Word("-o"), Text(<<"b">>),
               Word("-p"), Text(<<"2", "2", "2", "2">>),
               Word("-o"), Arg("IdentityFile=", KeyFile)>>

ReadOnlyCmds == {"status", "list_mounts", "list_shortcuts", "debug_config"}

\* the operations that change the system: helpers, directory and file writes
EffectOps == {"sshfs", "fusermount3", "umount", "fusermount", "mkdir", "mkdir_root",
              "rmdir", "write_config"}

\* the read-only commands change nothing and run no helper
C25_NoEffect ==
    cmd \in ReadOnlyCmds =>
        /\ cfg = pre.cfg /\ dirs = pre.dirs /\ mounts = pre.mounts /\ stale = pre.stale
        /\ \A i \in 1..Len(log) : log[i].op \notin EffectOps

\* every status answer is what is_sshfs_mounted gives now, not what it gave before
C25_AnswersCurrentOracle ==
    cmd = "status" =>
        \A i \in 1..Len(log) :
            log[i].op = "print" =>
                (log[i].res = "mounted" <=> is_sshfs_mounted(log[i].path) = "true")

\* the rows of list-mounts are the mount table of this moment
C25_RowsCurrentTable ==
    (cmd = "list_mounts" /\ exit = 0) =>
        {log[i].path : i \in 1..Len(log)} =
            {t \in {Resolve(m) : m \in mounts} :
                args.all \/ RelativeTo(t, Resolve(cfg.mount_root))}

\* C25: status, list-mounts, list-shortcuts and debug-config leave the stored
\* configuration, the directories and the mount table as they were and run
\* neither sshfs nor an unmount helper; what they answer is computed from the
\* system at that moment: list-mounts shows the fuse.sshfs mounts of the mount
\* table as it is, and status prints the answer is_sshfs_mounted gives now.
C25_ReadOnlyCommands ==
    /\ C25_NoEffect
    /\ C25_RowsCurrentTable
    /\ C25_AnswersCurrentOracle

\* a status query that found its path mounted, and changed nothing
C25_Witness ==
    /\ cmd = "status" /\ pc = "done" /\ exit = 0
    /\ target = Chain(1)
    /\ target \in mounts
    /\ log = <<Event("ensure", target, "ok"), Event("oracle", target, "true"),
               Printed(target, "true")>>
    /\ mounts = pre.mounts /\ dirs = pre.dirs /\ cfg = pre.cfg

\* process i ran the sshfs helper
RanSshfs(i) == \E k \in 1..Len(procs[i].log) : procs[i].log[k].op = "sshfs"

\* the sshfs run of process i returned 0
SshfsSucceeded(i) ==
    \E k \in 1..Len(procs[i].log) : procs[i].log[k] = Event("sshfs", P, "zero")

\* C26: of two concurrent invocations that mount one path, none starts sshfs on
\* the path while it is an active fuse.sshfs mount, so that the path is never
\* mounted a second time on top of the first.
C26_ConcurrentMountsGated ==
    (\A i \in DOMAIN procs : procs[i].cmd = "mount") =>
        /\ \A i \in DOMAIN procs : ~procs[i].over
        /\ ~\E i \in DOMAIN procs : procs[i].over /\ SshfsSucceeded(i) /\ P \in mounts

\* an invocation alone never starts sshfs on a path its pre-check saw mounted
C26_PrecheckGatesOwnRun ==
    \A i \in DOMAIN procs :
        (procs[i].cmd = "mount" /\ RanSshfs(i)) =>
            procs[i].log[2] = Event("oracle", P, "false")

\* the final oracle answer of process i
LastOracle(i) ==
    LET l  == procs[i].log
        ks == {k \in 1..Len(l) : l[k].op = "oracle"}
    IN  IF ks = {} THEN "none"
        ELSE l[CHOOSE k \in ks : \A j \in ks : j <= k].res

\* C27: while an unmount with its prune pass and a mount of the same path run
\* side by side, no step removes a directory that is a mount point at that
\* instant, and the mounting invocation exits 0 only when its last
\* is_sshfs_mounted query answered mounted.
C27_PruneVersusMount ==
    [][/\ \A d \in dirs \ dirs' : d \notin mounts
       /\ \A i \in DOMAIN procs' :
             (procs'[i].cmd = "mount" /\ procs'[i].exit = 0) => LastOracle(i)' = "true"]_vars

\* the pruner found the path unmounted, the mount came in between, and the
\* removal of the now mounted directory failed: pruning stopped, the mount stands
C27_Witness ==
    /\ procs[1].cmd = "unmount" /\ procs[1].pc = "done" /\ procs[1].exit = 0
    /\ Len(procs[1].log) >= 2
    /\ procs[1].log[Len(procs[1].log) - 1] = Event("oracle", P, "false")
    /\ procs[1].log[Len(procs[1].log)] = Event("rmdir", P, "oserror")
    /\ procs[2].cmd = "mount" /\ procs[2].pc = "done" /\ procs[2].exit = 0
    /\ LastOracle(2) = "true"
    /\ P \in mounts /\ P \in dirs

\* the unmount of a target failed at log position i: the helper exited non-zero,
\* or the query after the helper still answered mounted
UnmountFailedAtPos(i) ==
    \/ log[i].op \in UmountOps /\ log[i].res = "nonzero"
    \/ /\ i > 1 /\ log[i].op = "oracle" /\ log[i].res = "true"
       /\ log[i - 1].op \in UmountOps

\* p is a proper ancestor of q
StrictAncestor(p, q) == p # q /\ IsUnder(q, p)

\* C28: unmount-all takes its targets, each once, by non-increasing path length,
\* so that a selected mount inside another is unmounted before it; the first
\* target whose unmount fails (helper non-zero, or still mounted) ends the
\* command with a non-zero exit, and the targets after it are left as they were.
C28_OrderAndAbort ==
    cmd = "unmount_all" =>
        /\ \A i \in 1..Len(queue), j \in 1..Len(queue) :
              i < j => /\ queue[i] # queue[j]
                       /\ Len(StrOf(queue[i])) >= Len(StrOf(queue[j]))
                       /\ ~StrictAncestor(queue[i], queue[j])
        /\ \A j \in 1..Len(queue) :
              target # NoTarget => /\ target # queue[j]
                                   /\ Len(StrOf(target)) >= Len(StrOf(queue[j]))
                                   /\ ~StrictAncestor(target, queue[j])
        /\ \A i \in 1..Len(log), j \in 1..Len(log) :
              (i < j /\ log[i].op \in UmountOps /\ log[j].op \in UmountOps) =>
                  /\ log[i].path # log[j].path
                  /\ ~StrictAncestor(log[i].path, log[j].path)
        /\ \A i \in 1..Len(log) :
              UnmountFailedAtPos(i) =>
                  /\ pc = "done" /\ exit = 1 /\ i = Len(log)
                  /\ \A k \in 1..Len(queue) :
                        /\ queue[k] \in mounts <=> queue[k] \in pre.mounts
                        /\ queue[k] \in dirs <=> queue[k] \in pre.dirs
                        /\ \A n \in 1..Len(log) : log[n].path # queue[k]

\* the inner of two nested mounts failed to unmount: the outer one was not touched
C28_Witness ==
    /\ cmd = "unmount_all" /\ pc = "done" /\ exit = 1
    /\ target = Chain(2) /\ queue # <<>> /\ queue[1] = Chain(1)
    /\ UnmountFailedAtPos(Len(log))
    /\ \A n \in 1..Len(log) : log[n].path = Chain(2)
    /\ {Chain(1), Chain(2)} \subseteq mounts

\* the resolved start path of the running _safe_prune_empty_dirs
PruneStart == IF cmd = "prune" THEN Resolve(args.path) ELSE target

\* iterations of the loop begun so far: one per level from the start path to cur
PruneIterations == Len(PruneStart) - Len(cur) + 1

\* C29, as claimed: a call of _safe_prune_empty_dirs has ended after at most as
\* many iterations of its loop as the start path has ancestors.
C29_PruneIterationsBound ==
    (cmd = "prune" /\ pc = "done") => PruneIterations <= Len(PruneStart)

\* C29, amended: every iteration of the loop returns (or raises) or goes on with
\* the parent, one level up; under the mount root the walk never gets above it,
\* so it ends after at most depth(start) - depth(root) + 1 iterations, and a
\* start path outside the mount root ends it in the first iteration.
C29_PruneTerminates ==
    [][pc = "prune" =>
          /\ pc' = "prune" => (cur' = Parent(cur) /\ Len(cur') = Len(cur) - 1)
          /\ pc' # "prune" => cur' = cur
          /\ IF IsUnder(PruneStart, MountRootResolved)
             THEN /\ IsUnder(cur, MountRootResolved)
                  /\ PruneIterations <= Len(PruneStart) - Len(MountRootResolved) + 1
             ELSE pc' # "prune" /\ PruneIterations = 1]_vars

\* a walk over all the levels: /m/a/a and /m/a were removed, the third iteration
\* found the mount root and returned
C29_Witness ==
    /\ cmd = "prune" /\ pc = "done" /\ exit = 0
    /\ PruneStart = Chain(2) /\ cur = Chain(0)
    /\ PruneIterations = 3
    /\ Chain(2) \in pre.dirs /\ Chain(1) \notin dirs


\* the path is below the root and is not the root
StrictChild(p, root) == RelativeTo(p, root) /\ p # root

\* the events of the log that create the target or run sshfs on it
TargetEvents == {i \in 1..Len(log) : log[i].op \in {"mkdir", "sshfs"}}

\* the sanitized directory name is one non-empty path component: no "/" in
\* it, and it is neither "." nor ".."
C30_NameIsOneComponent ==
    (cmd = "mount" /\ target # NoTarget) =>
        /\ mount_name # <<>>
        /\ \A i \in 1..Len(mount_name) : mount_name[i] # "/"
        /\ mount_name \notin {<<".">>, DotDot}

\* a target that resolves outside the root ends the command before mkdir and
\* before sshfs
C30_OutsideFailsFirst ==
    (cmd = "mount" /\ target # NoTarget /\ ~RelativeTo(target, MountRootResolved)
        /\ pc \notin {"m_ensure"}) =>
        /\ pc = "done" /\ exit = 1
        /\ TargetEvents = {}

\* C30: in every run of mount, whatever the shortcut, the remote, --mount-dir
\* and --id, the path given to mkdir and to sshfs is a strict child of the
\* mount root (never the root itself, never a path outside it), the sanitized
\* directory name is a single non-empty component other than "." and ".."
\* without "/", and a target that resolves outside the root makes the command
\* fail before the directory is created and before sshfs is run.
C30_TargetStrictChild ==
    /\ cmd = "mount" =>
        \A i \in TargetEvents : StrictChild(log[i].path, MountRootResolved)
    /\ C30_NameIsOneComponent
    /\ C30_OutsideFailsFirst

====
